---- MODULE Spec2Model ----
(***************************************************************************)
(* missing_text: the PDF extraction pipeline (extract/pdf.py).  The model  *)
(* covers the path sandbox (validate_path, SAFE_MODE_CONFIG), the          *)
(* single-document page pipeline in its blocking and cooperative forms,    *)
(* the directory walker and the extract_pdfs dispatchers, the coroutine    *)
(* among the tasks of an event loop, the with_safe_mode wrapper run by     *)
(* several threads, and the document handles.  The PDF backend (pymupdf),  *)
(* PIL and the OCR engine are the environment: a document is a record of   *)
(* the outcomes its backend calls produce.                                 *)
(*                                                                         *)
(* Record constructors list their fields in the order in which the field   *)
(* names first occur in this module: that is the order TLC keeps a record  *)
(* in, so no record is rearranged while several workers read it.           *)
(***************************************************************************)
EXTENDS Integers, Sequences, FiniteSets, TLC

VARIABLES
    SAFE_MODE_CONFIG,   \* the module-level SafeModeConfig object
    req,                \* the call under way: entry point, input, safe_mode, flags
    sync_out,           \* outcome and event log of the blocking call
    task,               \* the coroutine of the cooperative call
    dispatch,           \* what extract_pdfs chose and handed back
    loop,               \* the event loop: ready queue and turns taken
    calls,              \* the decorated calls in flight, one per caller thread
    handles,            \* the documents each implementation holds open
    runs,               \* several coroutines of async_extract_pdf at once, with their accumulators
    invoked,            \* the extractor calls the page loops have made
    split               \* the call of a text splitter under way, and what it gave

vars == <<SAFE_MODE_CONFIG, req, sync_out, task, dispatch, loop, calls, handles, runs, invoked, split>>

(***************************************************************************)
(* Bounds of the model.                                                    *)
(***************************************************************************)
MaxPages == 2

(***************************************************************************)
(* Paths.  A path is the sequence of its components; an absolute path      *)
(* starts with the component "/".  NoPath stands for None.                 *)
(***************************************************************************)
NoPath == <<>>
Root == <<"/">>
Cwd == <<"/", "base">>
OutDir == <<"/", "out">>
SubDir == <<"/", "base", "docs.v1">>

\* The directories, regular files and symbolic links of the filesystem.
Dirs == {Root, Cwd, SubDir, OutDir}
Files == { <<"/", "base", "a.pdf">>, <<"/", "base", "b.txt">>,
           <<"/", "base", "docs.v1", "c.PDF">>,
           <<"/", "out", "d.pdf">>, <<"/", "out", "e.txt">> }
Symlinks == { <<"/", "base", "l.pdf">> }
LinkTarget(p) == <<"/", "out", "d.pdf">>

\* str.lower() on the suffixes that occur.
lower(s) == IF s = ".PDF" THEN ".pdf" ELSE IF s = ".TXT" THEN ".txt" ELSE s

\* PurePath.suffix: the final component from its last dot on, of a relative
\* path as of an absolute one; the empty path and the root have none.
suffix(p) ==
    IF p = <<>> THEN ""
    ELSE LET name == p[Len(p)] IN
         CASE name \in {"a.pdf", "d.pdf", "l.pdf", "nope.pdf"} -> ".pdf"
           [] name = "c.PDF" -> ".PDF"
           [] name \in {"b.txt", "e.txt"} -> ".txt"
           [] name = "docs.v1" -> ".v1"
           [] OTHER -> ""

is_absolute(p) == p # <<>> /\ p[1] = "/"

RECURSIVE realpath(_, _)
\* os.path.realpath: walk the components, ".." pops, a symlink is replaced
\* by its target.
realpath(done, rest) ==
    IF rest = <<>> THEN done
    ELSE LET c == Head(rest) IN
         IF c = ".."
         THEN realpath(IF Len(done) > 1 THEN SubSeq(done, 1, Len(done) - 1)
                       ELSE done, Tail(rest))
         ELSE LET q == Append(done, c) IN
              realpath(IF q \in Symlinks THEN LinkTarget(q) ELSE q, Tail(rest))

\* Path(file_path).resolve()
resolve(p) == realpath(Root, Tail(IF is_absolute(p) THEN p ELSE Cwd \o p))

is_dir(p) == resolve(p) \in Dirs
is_file(p) == resolve(p) \in Files

\* PurePath.is_relative_to: purely lexical.
is_relative_to(p, other) ==
    /\ is_absolute(p) = is_absolute(other)
    /\ Len(other) <= Len(p)
    /\ SubSeq(p, 1, Len(other)) = other

\* PurePath.relative_to: the remainder, or ValueError.
relative_to(p, other) ==
    IF is_relative_to(p, other)
    THEN [ok |-> TRUE, path |-> SubSeq(p, Len(other) + 1, Len(p))]
    ELSE [ok |-> FALSE, path |-> NoPath]

(***************************************************************************)
(* Safe mode configuration.                                                *)
(***************************************************************************)
SafeModeConfig(enabled, base_directory, allowed_extensions) ==
    [ enabled |-> enabled,
      base_directory |-> resolve(IF base_directory # NoPath
                                 THEN base_directory ELSE Cwd),
      allowed_extensions |-> IF allowed_extensions # {}
                             THEN allowed_extensions ELSE {".pdf"} ]

(***************************************************************************)
(* validate_path.  The outcome is the resolved path, or the               *)
(* PDFProcessingError with its reason.                                     *)
(***************************************************************************)
AccessDenied == "Access denied: outside the allowed directory"
InvalidFileType == "Invalid file type"

Accept(path) == [ok |-> TRUE, path |-> path, reason |-> ""]
Reject(path, reason) == [ok |-> FALSE, path |-> path, reason |-> reason]

\* Mutant of validate_resolved: a directory is accepted wherever it is.
validate_resolved_trusting_directories(path, safe_mode, config) ==
    IF safe_mode /\ ~is_dir(path)
    THEN IF ~is_relative_to(path, config.base_directory)
         THEN Reject(path, AccessDenied)
         ELSE IF lower(suffix(path)) \notin config.allowed_extensions
              THEN Reject(path, InvalidFileType)
              ELSE Accept(path)
    ELSE Accept(path)

\* Mutant of validate_resolved: the extension of a file is checked before
\* its containment.
validate_resolved_extension_first(path, safe_mode, config) ==
    IF safe_mode
    THEN IF is_dir(path)
         THEN IF ~is_relative_to(path, config.base_directory)
              THEN Reject(path, AccessDenied)
              ELSE Accept(path)
         ELSE IF lower(suffix(path)) \notin config.allowed_extensions
              THEN Reject(path, InvalidFileType)
              ELSE IF ~is_relative_to(path, config.base_directory)
                   THEN Reject(path, AccessDenied)
                   ELSE Accept(path)
    ELSE Accept(path)

\* The checks of validate_path on the resolved path.
validate_resolved(path, safe_mode, config) ==
    IF safe_mode
    THEN IF is_dir(path)
         THEN IF ~is_relative_to(path, config.base_directory)
              THEN Reject(path, AccessDenied)
              ELSE Accept(path)
         ELSE IF ~is_relative_to(path, config.base_directory)
              THEN Reject(path, AccessDenied)
              ELSE IF lower(suffix(path)) \notin config.allowed_extensions
                   THEN Reject(path, InvalidFileType)
                   ELSE Accept(path)
    ELSE Accept(path)

validate_path(file_path, safe_mode, config) ==
    validate_resolved(resolve(file_path), safe_mode, config)

(***************************************************************************)
(* Documents and pages as the backend presents them.  A page records what  *)
(* each backend call on it does: "ok" or "raise", and the items it lists.  *)
(***************************************************************************)
None == <<>>

\* The fixed threshold of the chart heuristic.
ChartItemThreshold == 10

\* PDFProcessingError and a normal return.
Raise(reason) == [reason |-> reason, kind |-> "PDFProcessingError", value |-> None]
Return(value) == [reason |-> <<>>, kind |-> "ok", value |-> value]

\* _get_page_count: len(doc), 0 when it cannot be determined.
get_page_count(doc) == IF doc.len = "ok" THEN Len(doc.pages) ELSE 0

\* _extract_text_from_page
extract_text_from_page(page, page_num) ==
    IF page.get_text = "ok"
    THEN [page_number |-> page_num + 1, content |-> <<"text", page.id>>]
    ELSE [page_number |-> page_num + 1,
          content |-> <<"Error: Unable to extract text from page", page_num + 1>>]

\* One detected table of _extract_tables_from_page as a TableRecord.
table_record(t, page_num) ==
    [page_number |-> page_num + 1, content |-> <<"table", t.id>>,
     metadata |-> <<"shape", t.cells>>]

\* Mutant of tables_to_records: a failing conversion ends the loop with the
\* tables converted so far.
tables_to_records_keeping_converted(tables, page_num, result) ==
    [k \in 1..Len(SelectSeq(tables, LAMBDA t : t.extract = "ok")) |->
        [page_number |-> page_num + 1,
         content |-> <<"table", SelectSeq(tables, LAMBDA t : t.extract = "ok")[k].id>>,
         metadata |-> <<"shape", SelectSeq(tables, LAMBDA t : t.extract = "ok")[k].cells>>]]

RECURSIVE tables_to_records(_, _, _)
\* The loop of _extract_tables_from_page over the detected tables: the
\* conversion of one table may raise, which leaves the function through its
\* except clause with an empty list.
tables_to_records(tables, page_num, result) ==
    IF tables = <<>> THEN result
    ELSE IF Head(tables).extract # "ok" THEN <<>>
    ELSE tables_to_records(Tail(tables), page_num,
                           Append(result, table_record(Head(tables), page_num)))

\* _extract_tables_from_page
extract_tables_from_page(page, page_num) ==
    IF page.find_tables # "ok" THEN <<>>
    ELSE tables_to_records(page.tables, page_num, <<>>)

RECURSIVE images_to_records_stopping_at_failure(_, _)
\* Mutant of images_to_records: one try around the whole loop, so that the
\* first image on which something raises ends it with the records made so
\* far; an image without payload raises nothing and is passed over.
images_to_records_stopping_at_failure(image_list, page_num) ==
    IF image_list = <<>> THEN <<>>
    ELSE IF Head(image_list).extract = "empty"
    THEN images_to_records_stopping_at_failure(Tail(image_list), page_num)
    ELSE IF Head(image_list).extract # "ok" \/ Head(image_list).ocr # "ok" THEN <<>>
    ELSE <<[page_number |-> page_num + 1,
            content |-> <<"ocr", Head(image_list).xref>>,
            image_data |-> <<"b64", Head(image_list).xref>>]>>
         \o images_to_records_stopping_at_failure(Tail(image_list), page_num)

RECURSIVE images_to_records(_, _)
\* The loop of _extract_images_from_page: each image in its own try.  An
\* image gives its record when doc.extract_image returns a payload that
\* Image.open accepts (extract) and pytesseract.image_to_string returns
\* (ocr).
images_to_records(image_list, page_num) ==
    IF image_list = <<>> THEN <<>>
    ELSE LET img == Head(image_list) IN
         (IF img.extract = "ok" /\ img.ocr = "ok"
          THEN <<[page_number |-> page_num + 1,
                  content |-> <<"ocr", img.xref>>,
                  image_data |-> <<"b64", img.xref>>]>>
          ELSE <<>>)
         \o images_to_records(Tail(image_list), page_num)

\* _extract_images_from_page
extract_images_from_page(page, page_num) ==
    IF page.get_images # "ok" THEN <<>>
    ELSE images_to_records(page.images, page_num)

\* _convert_page_as_image
convert_page_as_image(page, page_num) ==
    IF page.get_pixmap = "ok"
    THEN [page_number |-> page_num + 1, image |-> <<"png", page.id>>]
    ELSE [page_number |-> page_num + 1, image |-> None,
          error |-> <<"Error converting page to image", page_num + 1>>]

\* Segment stage 1: one text segment per block.
text_segments(blocks) ==
    [i \in 1..Len(blocks) |->
        [content |-> blocks[i].content, type |-> "text", bbox |-> blocks[i].bbox]]

\* The degraded image segment of the ValueError handler, when
\* page.get_image_bbox(xref) succeeds.
degraded_image_segment(img) ==
    IF img.bbox_xref = "ok"
    THEN <<[content |-> "Image data not available", type |-> "image",
            bbox |-> <<"bbox", img.xref>>]>>
    ELSE <<>>

\* Segment stage 2, one image: the body of the per-image try.  The calls
\* come in this order: doc.extract_image and Image.open (extract),
\* page.get_image_bbox(img) (bbox), pytesseract.image_to_string (ocr); the
\* first that raises decides the handler.
image_segment(img) ==
    CASE img.extract = "ok" ->
            (CASE img.bbox = "ok" ->
                    (CASE img.ocr = "ok" ->
                            <<[content |-> <<"ocr", img.xref>>,
                               image_data |-> <<"b64", img.xref>>,
                               type |-> "image",
                               bbox |-> <<"bbox", img.xref>>]>>
                       [] img.ocr = "ValueError" -> degraded_image_segment(img)
                       [] OTHER -> <<>>)
               [] img.bbox = "ValueError" -> degraded_image_segment(img)
               [] OTHER -> <<>>)
      [] img.extract = "ValueError" -> degraded_image_segment(img)
      [] OTHER -> <<>>   \* empty payload, FileDataError, any other exception

RECURSIVE image_segments(_)
image_segments(image_list) ==
    IF image_list = <<>> THEN <<>>
    ELSE image_segment(Head(image_list)) \o image_segments(Tail(image_list))

\* Segment stage 3: one table segment per detected table.
table_segments(tables) ==
    [i \in 1..Len(tables) |->
        [content |-> <<"Table cells", tables[i].cells>>, type |-> "table",
         bbox |-> <<"bbox", tables[i].id>>]]

RECURSIVE chart_segments(_)
\* Segment stage 4: a drawing with more than ChartItemThreshold items.
chart_segments(drawings) ==
    IF drawings = <<>> THEN <<>>
    ELSE (IF Head(drawings).items > ChartItemThreshold
          THEN <<[content |-> "Possible chart", type |-> "chart",
                  bbox |-> <<"bbox", Head(drawings).id>>]>>
          ELSE <<>>)
         \o chart_segments(Tail(drawings))

\* The markers of the LaTeX heuristic.
latex_patterns == {"\\begin{equation}", "\\end{equation}", "\\frac{", "\\sum_"}

\* any(pattern in block[4] for pattern in latex_patterns): the text of a
\* block is the sequence of its pieces, and a marker occurs in it when one
\* of the pieces is the marker.
has_latex_pattern(content) ==
    \E i \in 1..Len(content) : content[i] \in latex_patterns

RECURSIVE latex_segments(_)
\* Segment stage 5: the blocks that contain a LaTeX marker.
latex_segments(blocks) ==
    IF blocks = <<>> THEN <<>>
    ELSE (IF has_latex_pattern(Head(blocks).content)
          THEN <<[content |-> Head(blocks).content, type |-> "latex",
                  bbox |-> Head(blocks).bbox]>>
          ELSE <<>>)
         \o latex_segments(Tail(blocks))

\* Mutant of scan_segments: the LaTeX blocks are looked for right after the
\* text blocks.
scan_segments_latex_early(page) ==
    IF page.get_blocks # "ok" THEN <<>>
    ELSE text_segments(page.blocks) \o latex_segments(page.blocks) \o
    (IF page.get_images # "ok" THEN <<>>
     ELSE image_segments(page.images) \o
     (IF page.find_tables # "ok" THEN <<>>
      ELSE table_segments(page.tables) \o
      (IF page.get_drawings # "ok" THEN <<>>
       ELSE chart_segments(page.drawings))))

\* The stages of _extract_segments_from_page under its one try block: a
\* stage that raises ends the scan, and what was appended so far is kept.
scan_segments(page) ==
    IF page.get_blocks # "ok" THEN <<>>
    ELSE text_segments(page.blocks) \o
    (IF page.get_images # "ok" THEN <<>>
     ELSE image_segments(page.images) \o
     (IF page.find_tables # "ok" THEN <<>>
      ELSE table_segments(page.tables) \o
      (IF page.get_drawings # "ok" THEN <<>>
       ELSE chart_segments(page.drawings) \o latex_segments(page.blocks))))

\* Mutant of extract_segments_from_page: the record carries the 0-based
\* page index.
extract_segments_from_page_zero_based(page, page_num) ==
    [page_number |-> page_num, segments |-> scan_segments(page)]

\* _extract_segments_from_page
extract_segments_from_page(page, page_num) ==
    [page_number |-> page_num + 1, segments |-> scan_segments(page)]

(***************************************************************************)
(* Inputs, flags, results and the event log.                               *)
(***************************************************************************)
\* A document nobody opens (the doc field of a path input).
NoDoc == [len |-> "ok", pages |-> <<>>, open |-> "ok"]

\* input_data: bytes carry the document they decode to, a path names a file.
BytesInput(doc) == [path |-> NoPath, doc |-> doc, is_bytes |-> TRUE]
PathInput(p) == [path |-> p, doc |-> NoDoc, is_bytes |-> FALSE]

\* The default of every safe_mode parameter.
DefaultSafeMode == TRUE

\* The empty dict.
EmptyDict == <<>>

\* d.setdefault(key, []) followed by append / extend of items.
setdefault_extend(d, key, items) ==
    [k \in (DOMAIN d) \cup {key} |->
        IF k = key
        THEN (IF key \in DOMAIN d THEN d[key] ELSE <<>>) \o items
        ELSE d[k]]

\* d[key] = value
setitem(d, key, value) ==
    [k \in (DOMAIN d) \cup {key} |-> IF k = key THEN value ELSE d[k]]

\* Events of the log: a validation with its verdict, an open of a path, an
\* open of an in-memory stream, a hand-over to the directory walker.
EvValidate(v) == [ok |-> v.ok, path |-> v.path, ev |-> "validate"]
EvOpen(path) == [ok |-> TRUE, path |-> path, ev |-> "open"]
EvOpenStream == [ok |-> TRUE, path |-> NoPath, ev |-> "open_stream"]
EvWalker(path) == [ok |-> TRUE, path |-> path, ev |-> "walker"]

\* The reasons of the PDFProcessingErrors, outermost message first.
Corrupted == "Invalid or corrupted PDF file"
FailedToExtract == "Failed to extract content from PDF"
FileNotFound == "File not found"
NotADirectory == "Not a directory"
InvalidInput == "Invalid input: neither a valid PDF file nor a directory"

\* Mutant of wrap_exception: an IndexError leaves the function as it is.
wrap_exception_passing_index_errors(exc) ==
    IF exc \in {"ValueError", "RuntimeError"} THEN Raise(<<Corrupted, exc>>)
    ELSE IF exc = "FileNotFoundError" THEN Raise(<<FileNotFound, exc>>)
    ELSE IF exc = "IndexError" THEN [reason |-> <<exc>>, kind |-> exc, value |-> None]
    ELSE Raise(<<FailedToExtract, exc>>)

\* The except clauses at the end of sync_extract_pdf / async_extract_pdf.
wrap_exception(exc) ==
    IF exc \in {"ValueError", "RuntimeError"} THEN Raise(<<Corrupted, exc>>)
    ELSE IF exc = "FileNotFoundError" THEN Raise(<<FileNotFound, exc>>)
    ELSE Raise(<<FailedToExtract, exc>>)

\* A page on which every backend call succeeds and finds nothing.
PlainPage(id) ==
    [get_text |-> "ok", id |-> id, tables |-> <<>>, find_tables |-> "ok",
     get_images |-> "ok", images |-> <<>>,
     get_pixmap |-> "ok", blocks |-> <<>>,
     drawings |-> <<>>, get_blocks |-> "ok",
     get_drawings |-> "ok", load |-> "ok"]

\* The document stored in the regular file p.
DocAt(p) ==
    CASE p = <<"/", "base", "a.pdf">> ->
            [len |-> "ok", pages |-> <<PlainPage(11), PlainPage(12)>>, open |-> "ok"]
      [] p = <<"/", "base", "b.txt">> ->
            [len |-> "ok", pages |-> <<PlainPage(21)>>, open |-> "ok"]
      [] p = <<"/", "base", "docs.v1", "c.PDF">> ->
            [len |-> "ok", pages |-> <<[PlainPage(31) EXCEPT !.get_text = "raise"]>>,
             open |-> "ok"]
      [] p = <<"/", "out", "d.pdf">> ->
            [len |-> "ok", pages |-> <<PlainPage(41)>>, open |-> "ok"]
      [] OTHER ->
            [len |-> "ok", pages |-> <<>>, open |-> "RuntimeError"]

(***************************************************************************)
(* The blocking implementation.                                            *)
(***************************************************************************)
\* The five guarded extractor calls of the page loop of sync_extract_pdf.
sync_add_text(extracted_content, page, page_num, flags) ==
    IF flags.text
    THEN setdefault_extend(extracted_content, "text",
                           <<extract_text_from_page(page, page_num)>>)
    ELSE extracted_content

sync_add_tables(extracted_content, page, page_num, flags) ==
    IF flags.table
    THEN setdefault_extend(extracted_content, "tables",
                           extract_tables_from_page(page, page_num))
    ELSE extracted_content

sync_add_images(extracted_content, page, page_num, flags) ==
    IF flags.image
    THEN setdefault_extend(extracted_content, "images",
                           extract_images_from_page(page, page_num))
    ELSE extracted_content

\* Mutant of sync_add_pages: a page that fails to rasterize is left out.
sync_add_pages_dropping_failures(extracted_content, page, page_num, flags) ==
    IF flags.encode_page /\ page.get_pixmap = "ok"
    THEN setdefault_extend(extracted_content, "pages",
                           <<convert_page_as_image(page, page_num)>>)
    ELSE extracted_content

sync_add_pages(extracted_content, page, page_num, flags) ==
    IF flags.encode_page
    THEN setdefault_extend(extracted_content, "pages",
                           <<convert_page_as_image(page, page_num)>>)
    ELSE extracted_content

sync_add_segments(extracted_content, page, page_num, flags) ==
    IF flags.segment
    THEN setdefault_extend(extracted_content, "segments",
                           <<extract_segments_from_page(page, page_num)>>)
    ELSE extracted_content

\* Mutant of sync_page_body: a page whose text extraction failed is given
\* up, its other extractors are not run.
sync_page_body_stopping_at_failed_text(extracted_content, page, page_num, flags) ==
    IF flags.text /\ page.get_text # "ok"
    THEN sync_add_text(extracted_content, page, page_num, flags)
    ELSE sync_add_segments(
             sync_add_pages(
                 sync_add_images(
                     sync_add_tables(
                         sync_add_text(extracted_content, page, page_num, flags),
                         page, page_num, flags),
                     page, page_num, flags),
                 page, page_num, flags),
             page, page_num, flags)

\* One iteration of the page loop of sync_extract_pdf, the page fetched.
sync_page_body(extracted_content, page, page_num, flags) ==
    sync_add_segments(
        sync_add_pages(
            sync_add_images(
                sync_add_tables(
                    sync_add_text(extracted_content, page, page_num, flags),
                    page, page_num, flags),
                page, page_num, flags),
            page, page_num, flags),
        page, page_num, flags)

RECURSIVE sync_page_loop(_, _, _, _, _)
\* for page_num in range(total_pages) of sync_extract_pdf
sync_page_loop(doc, page_num, total_pages, extracted_content, flags) ==
    IF page_num >= total_pages THEN Return(extracted_content)
    ELSE IF doc.pages[page_num + 1].load # "ok"
    THEN wrap_exception(doc.pages[page_num + 1].load)
    ELSE sync_page_loop(doc, page_num + 1, total_pages,
                        sync_page_body(extracted_content, doc.pages[page_num + 1],
                                       page_num, flags),
                        flags)

\* sync_extract_pdf from pymupdf.open on: the open may raise, then the page
\* count is taken and the page loop runs.
sync_open_and_extract(doc, flags, log) ==
    IF doc.open # "ok"
    THEN [log |-> log, out |-> wrap_exception(doc.open)]
    ELSE [log |-> log,
          out |-> sync_page_loop(doc, 0, get_page_count(doc), EmptyDict, flags)]

\* Mutant of sync_extract_validated: the file is opened whatever
\* validate_path answered.
sync_extract_unvalidated(v, flags) ==
    IF ~is_file(v.path)
    THEN [log |-> <<EvValidate(v)>>, out |-> Raise(<<FailedToExtract, FileNotFound>>)]
    ELSE sync_open_and_extract(DocAt(v.path), flags, <<EvValidate(v), EvOpen(v.path)>>)

\* The path branch of sync_extract_pdf, validate_path having answered v.
sync_extract_validated(v, flags) ==
    IF ~v.ok
    THEN [log |-> <<EvValidate(v)>>, out |-> Raise(<<FailedToExtract, v.reason>>)]
    ELSE IF ~is_file(v.path)
    THEN [log |-> <<EvValidate(v)>>, out |-> Raise(<<FailedToExtract, FileNotFound>>)]
    ELSE sync_open_and_extract(DocAt(v.path), flags, <<EvValidate(v), EvOpen(v.path)>>)

\* The body of sync_extract_pdf (the function the decorator wraps).
sync_extract_pdf_func(input_data, safe_mode, flags, config) ==
    IF input_data.is_bytes
    THEN sync_open_and_extract(input_data.doc, flags, <<EvOpenStream>>)
    ELSE sync_extract_validated(validate_path(input_data.path, safe_mode, config),
                                flags)

\* The finally clause of the wrapper of with_safe_mode.
with_safe_mode_finally(r, config, original_safe_mode) ==
    [config |-> [config EXCEPT !.enabled = original_safe_mode], log |-> r.log,
     out |-> r.out]

\* with_safe_mode: the wrapper takes the keyword safe_mode for itself, sets
\* SAFE_MODE_CONFIG.enabled for the duration of the call and calls the
\* function without it, so the function runs with its own default.
with_safe_mode(input_data, safe_mode, flags, config) ==
    with_safe_mode_finally(
        sync_extract_pdf_func(input_data, DefaultSafeMode, flags,
                              [config EXCEPT !.enabled = safe_mode]),
        [config EXCEPT !.enabled = safe_mode],
        config.enabled)

\* sync_extract_pdf as the module exports it: the decorated function.
sync_extract_pdf(input_data, safe_mode, flags, config) ==
    with_safe_mode(input_data, safe_mode, flags, config)

(***************************************************************************)
(* The directory walker.                                                   *)
(***************************************************************************)
\* os.walk lists a directory tree top-down: the file names of a directory
\* (regular files and links to files), then its subdirectories one after the
\* other, each listing in the order the file system gives its entries, which
\* is any order.
files_in(directory) ==
    { e \in Files \cup Symlinks :
        Len(e) = Len(directory) + 1 /\ is_relative_to(e, directory) }
dirs_in(directory) ==
    { e \in Dirs : Len(e) = Len(directory) + 1 /\ is_relative_to(e, directory) }

\* The orders in which the entries S can be listed.
listings(S) ==
    { s \in [1..Cardinality(S) -> S] : \A e \in S : \E i \in 1..Cardinality(S) : s[i] = e }

RECURSIVE walks(_)
RECURSIVE walks_of(_)
\* What os.walk(directory) can yield, the files of each triple in a row.
walks(directory) ==
    { fs \o below : fs \in listings(files_in(directory)),
                    below \in UNION { walks_of(ds) : ds \in listings(dirs_in(directory)) } }
walks_of(ds) ==
    IF ds = <<>> THEN {<<>>}
    ELSE { first \o rest : first \in walks(Head(ds)), rest \in walks_of(Tail(ds)) }

InTree(directory, entry) ==
    Len(entry) > Len(directory) /\ is_relative_to(entry, directory)

\* os.walk(directory) during the call under way: the entries under
\* directory in the order the file system lists them for this call.
os_walk(directory) ==
    LET under(entry) == InTree(directory, entry) IN SelectSeq(req.listing, under)

\* One walked file of traverse_directory, validate_path having answered v:
\* an accepted file joins valid_files, a rejected one is skipped.
walked_file(acc, v) ==
    [acc EXCEPT !.valid_files = acc.valid_files \o (IF v.ok THEN <<v.path>> ELSE <<>>),
                !.log = Append(acc.log, EvValidate(v))]

RECURSIVE validate_walked(_, _, _, _)
\* The loop of traverse_directory over the walked files.
validate_walked(entries, safe_mode, config, acc) ==
    IF entries = <<>> THEN acc
    ELSE validate_walked(Tail(entries), safe_mode, config,
                         walked_file(acc, validate_path(Head(entries), safe_mode,
                                                        config)))

\* traverse_directory, validate_path having answered v for the directory.
traverse_validated(v, safe_mode, config) ==
    IF ~v.ok
    THEN [log |-> <<EvValidate(v)>>, out |-> Raise(<<v.reason>>), valid_files |-> <<>>]
    ELSE IF ~is_dir(v.path)
    THEN [log |-> <<EvValidate(v)>>, out |-> Raise(<<NotADirectory>>),
          valid_files |-> <<>>]
    ELSE validate_walked(os_walk(v.path), safe_mode, config,
                         [log |-> <<EvValidate(v), EvWalker(v.path)>>, out |-> Return(None),
                          valid_files |-> <<>>])

\* traverse_directory
traverse_directory(directory_path, safe_mode, config) ==
    traverse_validated(validate_path(directory_path, safe_mode, config),
                       safe_mode, config)

\* extracted_data[str(file_path.relative_to(directory_path))] = content, when
\* the document was processed; relative_to raising is caught like any error
\* of the document.
store_document(extracted_data, rel, out) ==
    IF out.kind = "ok" /\ rel.ok
    THEN setitem(extracted_data, rel.path, out.value)
    ELSE extracted_data

\* One iteration of the loop of sync_extract_pdfs_from_directory,
\* sync_extract_pdf having answered r.
sync_directory_body(acc, file_path, directory_path, r) ==
    [config |-> r.config,
     log |-> acc.log \o r.log,
     data |-> store_document(acc.data, relative_to(file_path, directory_path), r.out)]

RECURSIVE sync_directory_loop(_, _, _, _, _)
\* for file_path in traverse_directory(...) of sync_extract_pdfs_from_directory
sync_directory_loop(files, directory_path, safe_mode, flags, acc) ==
    IF files = <<>> THEN acc
    ELSE sync_directory_loop(
             Tail(files), directory_path, safe_mode, flags,
             sync_directory_body(acc, Head(files), directory_path,
                                 sync_extract_pdf(PathInput(Head(files)), safe_mode,
                                                  flags, acc.config)))

\* The result of sync_extract_pdfs_from_directory once its loop has ended.
directory_result(acc) ==
    [config |-> acc.config, log |-> acc.log, out |-> Return(acc.data)]

\* sync_extract_pdfs_from_directory, traverse_directory having answered t.
sync_directory_traversed(t, log, directory_path, safe_mode, flags, config) ==
    IF t.out.kind # "ok"
    THEN [config |-> config, log |-> log \o t.log, out |-> t.out]
    ELSE directory_result(
             sync_directory_loop(t.valid_files, directory_path, safe_mode, flags,
                                 [config |-> config, log |-> log \o t.log,
                                  data |-> EmptyDict]))

\* sync_extract_pdfs_from_directory, validate_path having answered v.
sync_directory_validated(v, directory_path, safe_mode, flags, config) ==
    IF ~v.ok
    THEN [config |-> config, log |-> <<EvValidate(v)>>, out |-> Raise(<<v.reason>>)]
    ELSE IF ~is_dir(v.path)
    THEN [config |-> config, log |-> <<EvValidate(v)>>,
          out |-> Raise(<<NotADirectory>>)]
    ELSE sync_directory_traversed(
             traverse_directory(directory_path, safe_mode, config),
             <<EvValidate(v)>>, directory_path, safe_mode, flags, config)

\* sync_extract_pdfs_from_directory
sync_extract_pdfs_from_directory(directory_path, safe_mode, flags, config) ==
    sync_directory_validated(validate_path(directory_path, safe_mode, config),
                             directory_path, safe_mode, flags, config)

\* r with the events of log before its own.
after_events(log, r) == [r EXCEPT !.log = log \o r.log]

\* extract_pdfs_sync, validate_path having answered v.
extract_pdfs_sync_validated(v, safe_mode, flags, config) ==
    IF ~v.ok
    THEN [config |-> config, log |-> <<EvValidate(v)>>, out |-> Raise(<<v.reason>>)]
    ELSE IF is_dir(v.path)
    THEN after_events(<<EvValidate(v)>>,
                      sync_extract_pdfs_from_directory(v.path, safe_mode, flags,
                                                       config))
    ELSE IF is_file(v.path)
    THEN after_events(<<EvValidate(v)>>,
                      sync_extract_pdf(PathInput(v.path), safe_mode, flags, config))
    ELSE [config |-> config, log |-> <<EvValidate(v)>>,
          out |-> Raise(<<InvalidInput>>)]

\* extract_pdfs_sync
extract_pdfs_sync(input_path, safe_mode, flags, config) ==
    IF input_path.is_bytes
    THEN sync_extract_pdf(input_path, safe_mode, flags, config)
    ELSE extract_pdfs_sync_validated(validate_path(input_path.path, safe_mode, config),
                                     safe_mode, flags, config)

(***************************************************************************)
(* The cooperative implementation.  The coroutine runs from one            *)
(* suspension point (await asyncio.sleep(0) at the end of a page) to the   *)
(* next; a task record holds its local variables in between.               *)
(***************************************************************************)
NoOut == [reason |-> <<>>, kind |-> "none", value |-> None]

NoTask ==
    [doc |-> NoDoc, page_num |-> 0, content |-> EmptyDict,
     total_pages |-> 0, log |-> <<>>, out |-> NoOut, data |-> EmptyDict,
     files |-> <<>>, pc |-> "none", in_dir |-> FALSE, root |-> NoPath,
     file |-> NoPath]

\* The task with the events of log appended to its log.
logged(t, log) == [t EXCEPT !.log = t.log \o log]

\* The coroutine has ended with outcome.
ended(t, outcome) == [t EXCEPT !.pc = "done", !.out = outcome]

\* The five guarded extractor calls of the page loop of async_extract_pdf.
\* Mutant of async_add_text: a page whose text extraction fails is left out.
async_add_text_dropping_failures(extracted_content, page, page_num, flags) ==
    IF flags.text /\ page.get_text = "ok"
    THEN setdefault_extend(extracted_content, "text",
                           <<extract_text_from_page(page, page_num)>>)
    ELSE extracted_content

async_add_text(extracted_content, page, page_num, flags) ==
    IF flags.text
    THEN setdefault_extend(extracted_content, "text",
                           <<extract_text_from_page(page, page_num)>>)
    ELSE extracted_content

async_add_tables(extracted_content, page, page_num, flags) ==
    IF flags.table
    THEN setdefault_extend(extracted_content, "tables",
                           extract_tables_from_page(page, page_num))
    ELSE extracted_content

async_add_images(extracted_content, page, page_num, flags) ==
    IF flags.image
    THEN setdefault_extend(extracted_content, "images",
                           extract_images_from_page(page, page_num))
    ELSE extracted_content

async_add_pages(extracted_content, page, page_num, flags) ==
    IF flags.encode_page
    THEN setdefault_extend(extracted_content, "pages",
                           <<convert_page_as_image(page, page_num)>>)
    ELSE extracted_content

async_add_segments(extracted_content, page, page_num, flags) ==
    IF flags.segment
    THEN setdefault_extend(extracted_content, "segments",
                           <<extract_segments_from_page(page, page_num)>>)
    ELSE extracted_content

\* One iteration of the page loop of async_extract_pdf, the page fetched.
async_page_body(extracted_content, page, page_num, flags) ==
    async_add_segments(
        async_add_pages(
            async_add_images(
                async_add_tables(
                    async_add_text(extracted_content, page, page_num, flags),
                    page, page_num, flags),
                page, page_num, flags),
            page, page_num, flags),
        page, page_num, flags)

RECURSIVE async_page_loop(_, _, _, _)
RECURSIVE async_document_end(_, _, _, _, _)
RECURSIVE async_directory_loop(_, _, _, _)
RECURSIVE async_open_and_extract(_, _, _, _, _)
RECURSIVE async_extract_validated(_, _, _, _, _)
RECURSIVE async_extract_pdf(_, _, _, _, _)
RECURSIVE async_page_loop_without_yield(_, _, _, _)

\* Mutant of async_page_loop: the loop goes on to the next page without
\* awaiting.
async_page_loop_without_yield(t, safe_mode, flags, config) ==
    IF t.page_num >= t.total_pages
    THEN async_document_end(t, Return(t.content), safe_mode, flags, config)
    ELSE IF t.doc.pages[t.page_num + 1].load # "ok"
    THEN async_document_end(t, wrap_exception(t.doc.pages[t.page_num + 1].load),
                            safe_mode, flags, config)
    ELSE async_page_loop_without_yield(
             [t EXCEPT !.pc = "suspended",
                       !.content = async_page_body(t.content, t.doc.pages[t.page_num + 1],
                                                   t.page_num, flags),
                       !.page_num = t.page_num + 1],
             safe_mode, flags, config)

\* The head of the page loop of async_extract_pdf: the next page is
\* processed and the coroutine suspends, or the loop is over and the
\* document's result is returned.
async_page_loop(t, safe_mode, flags, config) ==
    IF t.page_num >= t.total_pages
    THEN async_document_end(t, Return(t.content), safe_mode, flags, config)
    ELSE IF t.doc.pages[t.page_num + 1].load # "ok"
    THEN async_document_end(t, wrap_exception(t.doc.pages[t.page_num + 1].load),
                            safe_mode, flags, config)
    ELSE [t EXCEPT !.pc = "suspended",
                   !.content = async_page_body(t.content, t.doc.pages[t.page_num + 1],
                                               t.page_num, flags),
                   !.page_num = t.page_num + 1]

\* async_extract_pdf has returned or raised: its caller is either the event
\* loop or the loop of async_extract_pdfs_from_directory, which stores the
\* result under the relative path and goes on.
async_document_end(t, outcome, safe_mode, flags, config) ==
    IF ~t.in_dir
    THEN ended(t, outcome)
    ELSE async_directory_loop(
             [t EXCEPT !.data = store_document(t.data, relative_to(t.file, t.root),
                                               outcome)],
             safe_mode, flags, config)

\* for file_path in traverse_directory(...) of
\* async_extract_pdfs_from_directory
async_directory_loop(t, safe_mode, flags, config) ==
    IF t.files = <<>>
    THEN ended(t, Return(t.data))
    ELSE async_extract_pdf([t EXCEPT !.files = Tail(t.files),
                                     !.file = Head(t.files)],
                           PathInput(Head(t.files)), safe_mode, flags, config)

\* async_extract_pdf from pymupdf.open on.
async_open_and_extract(t, doc, safe_mode, flags, config) ==
    IF doc.open # "ok"
    THEN async_document_end(t, wrap_exception(doc.open), safe_mode, flags, config)
    ELSE async_page_loop([t EXCEPT !.doc = doc, !.page_num = 0,
                                   !.total_pages = get_page_count(doc),
                                   !.content = EmptyDict],
                         safe_mode, flags, config)

\* The path branch of async_extract_pdf, validate_path having answered v.
async_extract_validated(t, v, safe_mode, flags, config) ==
    IF ~v.ok
    THEN async_document_end(logged(t, <<EvValidate(v)>>),
                            Raise(<<FailedToExtract, v.reason>>),
                            safe_mode, flags, config)
    ELSE IF ~is_file(v.path)
    THEN async_document_end(logged(t, <<EvValidate(v)>>),
                            Raise(<<FailedToExtract, FileNotFound>>),
                            safe_mode, flags, config)
    ELSE async_open_and_extract(logged(t, <<EvValidate(v), EvOpen(v.path)>>),
                                DocAt(v.path), safe_mode, flags, config)

\* async_extract_pdf, from its call to its first suspension or its end.
async_extract_pdf(t, input_data, safe_mode, flags, config) ==
    IF input_data.is_bytes
    THEN async_open_and_extract(logged(t, <<EvOpenStream>>), input_data.doc,
                                safe_mode, flags, config)
    ELSE async_extract_validated(t, validate_path(input_data.path, safe_mode, config),
                                 safe_mode, flags, config)

\* async_extract_pdfs_from_directory, traverse_directory having answered w.
async_directory_traversed(t, w, directory_path, safe_mode, flags, config) ==
    IF w.out.kind # "ok"
    THEN ended(logged(t, w.log), w.out)
    ELSE async_directory_loop(
             [logged(t, w.log) EXCEPT !.in_dir = TRUE, !.root = directory_path,
                                      !.files = w.valid_files, !.data = EmptyDict],
             safe_mode, flags, config)

\* async_extract_pdfs_from_directory, validate_path having answered v.
async_directory_validated(t, v, directory_path, safe_mode, flags, config) ==
    IF ~v.ok
    THEN ended(logged(t, <<EvValidate(v)>>), Raise(<<v.reason>>))
    ELSE IF ~is_dir(v.path)
    THEN ended(logged(t, <<EvValidate(v)>>), Raise(<<NotADirectory>>))
    ELSE async_directory_traversed(
             logged(t, <<EvValidate(v)>>),
             traverse_directory(directory_path, safe_mode, config),
             directory_path, safe_mode, flags, config)

\* async_extract_pdfs_from_directory, from its call to its first suspension
\* or its end.
async_extract_pdfs_from_directory(t, directory_path, safe_mode, flags, config) ==
    async_directory_validated(t, validate_path(directory_path, safe_mode, config),
                              directory_path, safe_mode, flags, config)

\* extract_pdfs_async, validate_path having answered v.
extract_pdfs_async_validated(t, v, safe_mode, flags, config) ==
    IF ~v.ok
    THEN ended(logged(t, <<EvValidate(v)>>), Raise(<<v.reason>>))
    ELSE IF is_dir(v.path)
    THEN async_extract_pdfs_from_directory(logged(t, <<EvValidate(v)>>), v.path,
                                           safe_mode, flags, config)
    ELSE IF is_file(v.path)
    THEN async_extract_pdf(logged(t, <<EvValidate(v)>>), PathInput(v.path),
                           safe_mode, flags, config)
    ELSE ended(logged(t, <<EvValidate(v)>>), Raise(<<InvalidInput>>))

\* extract_pdfs_async, from its call to its first suspension or its end.
extract_pdfs_async(t, input_path, safe_mode, flags, config) ==
    IF input_path.is_bytes
    THEN async_extract_pdf(t, input_path, safe_mode, flags, config)
    ELSE extract_pdfs_async_validated(
             t, validate_path(input_path.path, safe_mode, config),
             safe_mode, flags, config)

(***************************************************************************)
(* extract_pdfs: the entry point that picks its implementation from the    *)
(* context it is called in.                                                *)
(***************************************************************************)
\* The contexts of a caller: plain code, or code run by an event loop.
Contexts == {"plain", "event_loop"}

\* asyncio.get_running_loop()
get_running_loop(context) == IF context = "event_loop" THEN "ok" ELSE "RuntimeError"

\* _is_running_async
is_running_async(context) == get_running_loop(context) = "ok"

\* What asyncio.create_task hands back: the task, not yet run.
CreatedTask == [reason |-> <<>>, kind |-> "Task", value |-> None]

\* Mutant of page_invocations: a text extraction that failed is tried once
\* more.
page_invocations_retrying_failed_text(page, page_num, flags) ==
    (IF flags.text
     THEN (IF page.get_text # "ok"
           THEN <<<<"text", page_num>>, <<"text", page_num>>>>
           ELSE <<<<"text", page_num>>>>)
     ELSE <<>>) \o
    (IF flags.table THEN <<<<"tables", page_num>>>> ELSE <<>>) \o
    (IF flags.image THEN <<<<"images", page_num>>>> ELSE <<>>) \o
    (IF flags.encode_page THEN <<<<"pages", page_num>>>> ELSE <<>>) \o
    (IF flags.segment THEN <<<<"segments", page_num>>>> ELSE <<>>)

\* The extractor calls of one iteration of the page loop, in the order of
\* the code: each is guarded by its flag alone, and each extractor handles
\* its own failures and returns.
page_invocations(page, page_num, flags) ==
    (IF flags.text THEN <<<<"text", page_num>>>> ELSE <<>>) \o
    (IF flags.table THEN <<<<"tables", page_num>>>> ELSE <<>>) \o
    (IF flags.image THEN <<<<"images", page_num>>>> ELSE <<>>) \o
    (IF flags.encode_page THEN <<<<"pages", page_num>>>> ELSE <<>>) \o
    (IF flags.segment THEN <<<<"segments", page_num>>>> ELSE <<>>)

RECURSIVE sync_invocations(_, _, _, _)
\* The extractor calls of the page loop of sync_extract_pdf, up to its end
\* or to the page that cannot be fetched.
sync_invocations(doc, page_num, total_pages, flags) ==
    IF page_num >= total_pages THEN <<>>
    ELSE IF doc.pages[page_num + 1].load # "ok" THEN <<>>
    ELSE page_invocations(doc.pages[page_num + 1], page_num, flags)
         \o sync_invocations(doc, page_num + 1, total_pages, flags)

\* The extractor calls of the turn of async_extract_pdf that left it in t:
\* those of the page it processed before it suspended.
async_invocations(t, flags) ==
    IF t.pc = "suspended"
    THEN page_invocations(t.doc.pages[t.page_num], t.page_num - 1, flags)
    ELSE <<>>

\* The document a single-document call works on.
document_of(input_data) ==
    IF input_data.is_bytes THEN input_data.doc ELSE DocAt(resolve(input_data.path))

\* No extractor has been called.
NoInvoked == [blocking |-> <<>>, cooperative |-> <<>>]

\* No splitter is being called.
NoSplit ==
    [text |-> <<>>, out |-> [kind |-> "none", value |-> <<>>], fn |-> "none", overlap |-> 0, delimiters |-> <<>>,
     size |-> 0]

\* No document is open.
NoHandles == [blocking |-> 0, cooperative |-> 0]

\* The documents pymupdf.open has handed out according to the log: an open
\* that raised hands out none.
opened_documents(log, input_data) ==
    Cardinality({ i \in 1..Len(log) :
                    \/ log[i].ev = "open_stream" /\ input_data.doc.open = "ok"
                    \/ log[i].ev = "open" /\ DocAt(log[i].path).open = "ok" })

\* The documents still open.  No function calls close(): a document lives
\* as long as something refers to it, and is finalized, and with that
\* closed, the moment nothing does.  Inside the page loop the local doc
\* refers to it; at a return the frame goes and nothing does; after a raise
\* the traceback of the exception the caller holds keeps the frame, and
\* with it doc, alive.
still_referenced(pc, out, open) ==
    IF pc = "suspended" THEN 1
    ELSE IF out.kind = "ok" THEN 0
    ELSE open

\* The threads that call the decorated function.
Callers == {"t1", "t2", "t3"}

\* A thread outside the wrapper, and all of them so; before is the value of
\* SAFE_MODE_CONFIG.enabled when the first of the calls in flight started.
Outside == [safe_mode |-> TRUE, original_safe_mode |-> TRUE, pc |-> "outside"]
NoCalls == [wrapper |-> [c \in Callers |-> Outside], before |-> TRUE]

\* The event loop with nothing to run.
NoLoop == [turns |-> 0, ready |-> <<>>, owed |-> {}, outrun |-> FALSE]

NoDispatch == [config |-> SafeModeConfig(TRUE, NoPath, {}), context |-> "plain", impl |-> "none",
               returned |-> NoOut]

\* extract_pdfs, r being what extract_pdfs_sync answers when it is the one
\* called.
extract_pdfs_chosen(context, r, config) ==
    IF is_running_async(context)
    THEN [config |-> config, context |-> context, impl |-> "extract_pdfs_async",
          returned |-> CreatedTask]
    ELSE [config |-> r.config, context |-> context, impl |-> "extract_pdfs_sync",
          returned |-> r.out]

\* extract_pdfs
extract_pdfs(context, input_path, safe_mode, flags, config) ==
    extract_pdfs_chosen(context,
                        extract_pdfs_sync(input_path, safe_mode, flags, config),
                        config)

(***************************************************************************)
(* The calls a client makes.  safe_mode is "omitted", "True" or "False".   *)
(***************************************************************************)
SafeModeArgs == {"omitted", "True", "False"}
SafeModeOf(arg) == IF arg = "omitted" THEN DefaultSafeMode ELSE arg = "True"

Flags(text, table, image, encode_page, segment) ==
    [image |-> image, text |-> text, table |-> table,
     encode_page |-> encode_page, segment |-> segment]
AllFlags == [image : BOOLEAN, text : BOOLEAN, table : BOOLEAN,
             encode_page : BOOLEAN, segment : BOOLEAN]
DefaultFlags == Flags(TRUE, TRUE, TRUE, TRUE, TRUE)
NoFlags == Flags(FALSE, FALSE, FALSE, FALSE, FALSE)

\* The entry points: validate_path, and the three blocking / cooperative
\* pairs.
PairedEntryPoints == {"extract_pdf", "extract_pdfs_from_directory", "extract_pdfs"}
EntryPoints == PairedEntryPoints \cup {"validate_path"}

\* The coroutines of async_extract_pdf that run at the same time.
RunIds == {1, 2}

\* None of them started: no documents, empty accumulators, no turn taken.
NoRuns == [task |-> [i \in RunIds |-> NoTask], doc |-> [i \in RunIds |-> NoDoc],
           flags |-> DefaultFlags, turns |-> <<>>,
           heap |-> [i \in RunIds |-> EmptyDict]]

NoReq == [safe_mode |-> "omitted", flags |-> DefaultFlags, listing |-> <<>>, fn |-> "none",
          input |-> PathInput(NoPath)]
NoSyncOut == [log |-> <<>>, out |-> NoOut]

\* A direct call of validate_path, as an outcome with its log.
validate_path_call(v, config) ==
    [config |-> config,
     log |-> <<EvValidate(v)>>, out |-> IF v.ok THEN Return(v.path) ELSE Raise(<<v.reason>>)]

\* The blocking member of an entry point, run to completion.
SyncEntry(r, config) ==
    CASE r.fn = "validate_path" ->
            validate_path_call(
                validate_path(r.input.path, SafeModeOf(r.safe_mode), config), config)
      [] r.fn = "extract_pdf" ->
            sync_extract_pdf(r.input, SafeModeOf(r.safe_mode), r.flags, config)
      [] r.fn = "extract_pdfs_from_directory" ->
            sync_extract_pdfs_from_directory(r.input.path, SafeModeOf(r.safe_mode),
                                             r.flags, config)
      [] r.fn = "extract_pdfs" ->
            extract_pdfs_sync(r.input, SafeModeOf(r.safe_mode), r.flags, config)

\* The cooperative member of an entry point, up to its first suspension.
AsyncEntry(t, r, config) ==
    CASE r.fn = "extract_pdf" ->
            async_extract_pdf(t, r.input, SafeModeOf(r.safe_mode), r.flags, config)
      [] r.fn = "extract_pdfs_from_directory" ->
            async_extract_pdfs_from_directory(t, r.input.path,
                                              SafeModeOf(r.safe_mode), r.flags,
                                              config)
      [] r.fn = "extract_pdfs" ->
            extract_pdfs_async(t, r.input, SafeModeOf(r.safe_mode), r.flags, config)

(***************************************************************************)
(* The state machine: a client reconfigures safe mode, or makes a call;    *)
(* the call is run by the blocking implementation and, for the paired      *)
(* entry points, by a coroutine of the cooperative one on the same input.  *)
(***************************************************************************)
Init ==
    /\ SAFE_MODE_CONFIG = SafeModeConfig(TRUE, NoPath, {})
    /\ req = NoReq
    /\ sync_out = NoSyncOut
    /\ task = NoTask
    /\ dispatch = NoDispatch
    /\ loop = NoLoop
    /\ calls = NoCalls
    /\ handles = NoHandles
    /\ runs = NoRuns
    /\ invoked = NoInvoked
    /\ split = NoSplit

\* set_safe_mode, between calls.
set_safe_mode(enabled, base_directory, allowed_extensions) ==
    /\ req.fn = "none"
    /\ SAFE_MODE_CONFIG' = SafeModeConfig(enabled, base_directory, allowed_extensions)
    /\ UNCHANGED <<req, sync_out, task, dispatch, loop, calls, handles, runs, invoked, split>>

\* A client calls an entry point.
Call(fn, input, safe_mode, flags, listing) ==
    /\ req.fn = "none"
    /\ req' = [safe_mode |-> safe_mode, flags |-> flags, listing |-> listing, fn |-> fn,
               input |-> input]
    /\ sync_out' = NoSyncOut
    /\ task' = IF fn \in PairedEntryPoints THEN [NoTask EXCEPT !.pc = "created"]
               ELSE NoTask
    /\ UNCHANGED <<SAFE_MODE_CONFIG, dispatch, loop, calls, handles, runs, invoked, split>>

\* The blocking call has ended: its outcome and log are kept, the safe mode
\* configuration is the one it left, and the documents it opened are closed
\* unless the exception it raised still refers to them.
SyncReturns(r) ==
    /\ sync_out' = [log |-> r.log, out |-> r.out]
    /\ SAFE_MODE_CONFIG' = r.config
    /\ handles' = [handles EXCEPT !.blocking =
                      still_referenced("done", r.out,
                                       opened_documents(r.log, req.input))]

\* The blocking implementation runs the call to completion.
SyncRun ==
    /\ req.fn # "none"
    /\ sync_out.out.kind = "none"
    /\ SyncReturns(SyncEntry(req, SAFE_MODE_CONFIG))
    /\ invoked' = [invoked EXCEPT !.blocking =
                      IF req.fn = "extract_pdf"
                         /\ opened_documents(sync_out'.log, req.input) = 1
                      THEN sync_invocations(document_of(req.input), 0,
                                            get_page_count(document_of(req.input)),
                                            req.flags)
                      ELSE <<>>]
    /\ UNCHANGED <<req, task, dispatch, loop, calls, runs, split>>

\* The event loop starts the coroutine.
AsyncStart ==
    /\ task.pc = "created"
    /\ task' = AsyncEntry(task, req, SAFE_MODE_CONFIG)
    /\ handles' = [handles EXCEPT !.cooperative =
                      still_referenced(task'.pc, task'.out,
                                       opened_documents(task'.log, req.input))]
    /\ invoked' = [invoked EXCEPT !.cooperative =
                      IF req.fn = "extract_pdf"
                      THEN @ \o async_invocations(task', req.flags) ELSE @]
    /\ UNCHANGED <<SAFE_MODE_CONFIG, req, sync_out, dispatch, loop, calls, runs, split>>

\* The event loop resumes the coroutine after await asyncio.sleep(0).
AsyncResume ==
    /\ task.pc = "suspended"
    /\ task' = async_page_loop(task, SafeModeOf(req.safe_mode), req.flags,
                               SAFE_MODE_CONFIG)
    /\ handles' = [handles EXCEPT !.cooperative =
                      still_referenced(task'.pc, task'.out,
                                       opened_documents(task'.log, req.input))]
    /\ invoked' = [invoked EXCEPT !.cooperative =
                      IF req.fn = "extract_pdf"
                      THEN @ \o async_invocations(task', req.flags) ELSE @]
    /\ UNCHANGED <<SAFE_MODE_CONFIG, req, sync_out, dispatch, loop, calls, runs, split>>

\* The client's call of extract_pdfs itself, made from the given context.
\* The task it creates in an event loop is the coroutine of
\* extract_pdfs_async that the variable task follows.
ExtractPdfs(context) ==
    /\ req.fn = "extract_pdfs"
    /\ dispatch.impl = "none"
    /\ dispatch' = extract_pdfs(context, req.input, SafeModeOf(req.safe_mode),
                                req.flags, SAFE_MODE_CONFIG)
    /\ SAFE_MODE_CONFIG' = dispatch'.config
    /\ UNCHANGED <<req, sync_out, task, loop, calls, handles, runs, invoked, split>>

\* Both implementations have answered.
Finished ==
    /\ req.fn # "none"
    /\ sync_out.out.kind # "none"
    /\ task.pc \in {"none", "done"}

\* The call is over: the client lets go of the result or of the exception,
\* what was left open is finalized, and the client may make the next call.
CallReturns ==
    /\ Finished
    /\ req' = NoReq
    /\ sync_out' = NoSyncOut
    /\ task' = NoTask
    /\ dispatch' = NoDispatch
    /\ handles' = NoHandles
    /\ invoked' = NoInvoked
    /\ UNCHANGED <<SAFE_MODE_CONFIG, loop, calls, runs, split>>

\* What the file system can list during a call of fn on the path p: a walk
\* of the directory for the entry points that walk one, nothing otherwise.
walked(fn, p) ==
    IF fn \in {"extract_pdfs_from_directory", "extract_pdfs"} /\ is_dir(resolve(p))
    THEN walks(resolve(p))
    ELSE {<<>>}

\* What the clients of the sandbox specification pass.
InputPaths ==
    { Cwd, SubDir, OutDir,
      <<"/", "base", "a.pdf">>, <<"/", "base", "b.txt">>,
      <<"/", "base", "docs.v1", "c.PDF">>, <<"/", "base", "l.pdf">>,
      <<"/", "base", "nope.pdf">>,
      <<"/", "out", "d.pdf">>, <<"/", "out", "e.txt">>,
      <<"a.pdf">>, <<"docs.v1">>,
      <<"/", "base", "docs.v1", "..", "..", "out", "d.pdf">>,
      <<"/", "base", "docs.v1", "..">> }
BaseDirectoryArgs == {NoPath, SubDir, OutDir}
AllowedExtensionsArgs == { {}, {".txt"}, {".pdf", ".txt"} }
FlagChoices == {DefaultFlags, NoFlags, Flags(TRUE, FALSE, FALSE, TRUE, FALSE)}
\* The in-memory documents they pass: one that opens, one that does not,
\* one whose second page cannot be fetched.
BytesDocs == { [len |-> "ok", pages |-> <<PlainPage(1)>>, open |-> "ok"],
               [len |-> "ok", pages |-> <<>>, open |-> "RuntimeError"],
               [len |-> "ok",
                pages |-> <<PlainPage(1), [PlainPage(2) EXCEPT !.load = "IndexError"]>>,
                open |-> "ok"] }

Next ==
    \/ \E enabled \in BOOLEAN, base_directory \in BaseDirectoryArgs,
          allowed_extensions \in AllowedExtensionsArgs :
          set_safe_mode(enabled, base_directory, allowed_extensions)
    \/ /\ req.fn = "none"
       /\ \E p \in InputPaths, safe_mode \in SafeModeArgs :
             Call("validate_path", PathInput(p), safe_mode, DefaultFlags, <<>>)
    \/ /\ req.fn = "none"
       /\ \E fn \in PairedEntryPoints, p \in InputPaths :
             \E listing \in walked(fn, p), safe_mode \in SafeModeArgs,
                flags \in FlagChoices :
                Call(fn, PathInput(p), safe_mode, flags, listing)
    \/ /\ req.fn = "none"
       /\ \E fn \in {"extract_pdf", "extract_pdfs"}, doc \in BytesDocs,
             safe_mode \in SafeModeArgs :
             Call(fn, BytesInput(doc), safe_mode, DefaultFlags, <<>>)
    \/ SyncRun
    \/ AsyncStart
    \/ AsyncResume
    \/ \E context \in Contexts : ExtractPdfs(context)
    \/ CallReturns

Spec == Init /\ [][Next]_vars

(***************************************************************************)
(* The page pipeline on in-memory documents: every document of up to       *)
(* MaxPages pages drawn from PageVariants, under every flag combination.   *)
(***************************************************************************)
\* A page with one table, three images (the second without payload), a block
\* with a LaTeX marker, a block without one and a drawing above the chart
\* threshold.
RichPage ==
    [PlainPage(0) EXCEPT
        !.tables = <<[id |-> 1, cells |-> 4, extract |-> "ok"]>>,
        !.images = <<[extract |-> "ok", ocr |-> "ok", xref |-> 1,
                      bbox |-> "ok", bbox_xref |-> "ok"],
                     [extract |-> "empty", ocr |-> "ok", xref |-> 2,
                      bbox |-> "ok", bbox_xref |-> "ok"],
                     [extract |-> "ok", ocr |-> "ok", xref |-> 3,
                      bbox |-> "ok", bbox_xref |-> "ok"]>>,
        !.blocks = <<[content |-> <<"x = ", "\\frac{", "a}{b}">>, bbox |-> <<"bbox", 1>>],
                     [content |-> <<"plain words">>, bbox |-> <<"bbox", 2>>]>>,
        !.drawings = <<[id |-> 1, items |-> 11]>>]

\* Seven images: the first cannot be decoded (ValueError); on the third the
\* OCR raises (any other exception); on the fifth and the sixth both
\* page.get_image_bbox(img) and the OCR would raise, one a ValueError and
\* the other not; on the seventh the OCR raises a ValueError; the second and
\* the fourth are fine.
FailingImages ==
    <<[extract |-> "ValueError", ocr |-> "ok", xref |-> 1,
       bbox |-> "ok", bbox_xref |-> "ok"],
      [extract |-> "ok", ocr |-> "ok", xref |-> 2,
       bbox |-> "ok", bbox_xref |-> "ok"],
      [extract |-> "ok", ocr |-> "RuntimeError", xref |-> 3,
       bbox |-> "ok", bbox_xref |-> "ok"],
      [extract |-> "ok", ocr |-> "ok", xref |-> 4,
       bbox |-> "ok", bbox_xref |-> "ok"],
      [extract |-> "ok", ocr |-> "RuntimeError", xref |-> 5, bbox |-> "ValueError",
       bbox_xref |-> "ok"],
      [extract |-> "ok", ocr |-> "ValueError", xref |-> 6, bbox |-> "RuntimeError",
       bbox_xref |-> "ok"],
      [extract |-> "ok", ocr |-> "ValueError", xref |-> 7,
       bbox |-> "ok", bbox_xref |-> "ok"]>>

PageVariants ==
    { PlainPage(0),
      [PlainPage(0) EXCEPT !.get_text = "raise"],
      [PlainPage(0) EXCEPT !.get_pixmap = "raise"],
      [RichPage EXCEPT !.get_text = "raise", !.get_pixmap = "raise",
                       !.get_drawings = "raise"],
      RichPage,
      [RichPage EXCEPT !.get_blocks = "raise"],
      [RichPage EXCEPT !.get_images = "raise"],
      [RichPage EXCEPT !.find_tables = "raise"],
      [RichPage EXCEPT !.tables = <<[id |-> 1, cells |-> 4, extract |-> "ok"],
                                    [id |-> 2, cells |-> 6, extract |-> "raise"]>>,
                       !.images = FailingImages],
      [PlainPage(0) EXCEPT !.load = "IndexError"] }

\* The pages ps, each with its position as identity.
Numbered(ps) == [i \in 1..Len(ps) |-> [ps[i] EXCEPT !.id = i]]

PageLists == UNION { [1..n -> PageVariants] : n \in 0..MaxPages }

\* Documents that open; one whose page count cannot be determined; one that
\* does not open.
PipelineDocs ==
    { [len |-> "ok", pages |-> Numbered(ps), open |-> "ok"] : ps \in PageLists }
    \cup { [len |-> "raise", pages |-> <<PlainPage(1)>>, open |-> "ok"],
           [len |-> "ok", pages |-> <<>>, open |-> "RuntimeError"] }

NextPipeline ==
    \/ /\ req.fn = "none"
       /\ \E doc \in PipelineDocs, flags \in AllFlags :
             Call("extract_pdf", BytesInput(doc), "omitted", flags, <<>>)
    \/ SyncRun
    \/ AsyncStart
    \/ AsyncResume
    \/ CallReturns

SpecPipeline == Init /\ [][NextPipeline]_vars

(***************************************************************************)
(* The wrapper of with_safe_mode run by several threads at once.  Each     *)
(* statement of the wrapper is a step of its thread; the threads take      *)
(* their steps in any order.                                               *)
(***************************************************************************)
\* No thread is inside the wrapper.
Quiescent == \A c \in Callers : calls.wrapper[c].pc = "outside"

\* original_safe_mode = SAFE_MODE_CONFIG.enabled
WrapperSaves(c, safe_mode) ==
    /\ calls.wrapper[c].pc = "outside"
    /\ calls' = [wrapper |-> [calls.wrapper EXCEPT ![c] =
                                 [safe_mode |-> safe_mode, original_safe_mode |-> SAFE_MODE_CONFIG.enabled,
                                  pc |-> "saved"]],
                 before |-> IF Quiescent THEN SAFE_MODE_CONFIG.enabled
                            ELSE calls.before]
    /\ UNCHANGED <<SAFE_MODE_CONFIG, req, sync_out, task, dispatch, loop, handles, runs, invoked, split>>

\* SAFE_MODE_CONFIG.enabled = safe_mode, and func is entered.
WrapperSets(c) ==
    /\ calls.wrapper[c].pc = "saved"
    /\ SAFE_MODE_CONFIG' = [SAFE_MODE_CONFIG EXCEPT
                               !.enabled = calls.wrapper[c].safe_mode]
    /\ calls' = [calls EXCEPT !.wrapper[c].pc = "in_func"]
    /\ UNCHANGED <<req, sync_out, task, dispatch, loop, handles, runs, invoked, split>>

\* func has returned or raised: the finally clause restores what the thread
\* saved.
WrapperRestores(c) ==
    /\ calls.wrapper[c].pc = "in_func"
    /\ SAFE_MODE_CONFIG' = [SAFE_MODE_CONFIG EXCEPT
                               !.enabled = calls.wrapper[c].original_safe_mode]
    /\ calls' = [calls EXCEPT !.wrapper[c] = Outside]
    /\ UNCHANGED <<req, sync_out, task, dispatch, loop, handles, runs, invoked, split>>

\* set_safe_mode while no decorated call is in flight.
ConfiguredBetweenCalls(enabled, base_directory) ==
    /\ Quiescent
    /\ SAFE_MODE_CONFIG' = SafeModeConfig(enabled, base_directory, {})
    /\ calls' = [calls EXCEPT !.before = enabled]
    /\ UNCHANGED <<req, sync_out, task, dispatch, loop, handles, runs, invoked, split>>

NextThreads ==
    \/ \E c \in Callers, safe_mode \in BOOLEAN : WrapperSaves(c, safe_mode)
    \/ \E c \in Callers : WrapperSets(c)
    \/ \E c \in Callers : WrapperRestores(c)
    \/ \E enabled \in BOOLEAN, base_directory \in BaseDirectoryArgs :
          ConfiguredBetweenCalls(enabled, base_directory)

SpecThreads == Init /\ [][NextThreads]_vars

(***************************************************************************)
(* The coroutine of async_extract_pdf among other tasks of an event loop.  *)
(* The loop runs its ready tasks first in, first out; a task that awaits   *)
(* asyncio.sleep(0) rejoins the queue at its end.  Another task may end,   *)
(* or yield in its turn, and may reconfigure safe mode while it runs.      *)
(***************************************************************************)
\* The other tasks of the loop and the extracting one.
OtherTasks == {"a", "b"}
Extractor == "extract"

\* The ready queues a call may find: the extractor among any of the others,
\* in any order.
ReadyQueues ==
    { q \in UNION { [1..n -> OtherTasks \cup {Extractor}] : n \in 1..3 } :
        /\ \E i \in 1..Len(q) : q[i] = Extractor
        /\ \A i, j \in 1..Len(q) : q[i] = q[j] => i = j }

\* The tasks of a queue, the first left out.
Behind(q) == { q[i] : i \in 2..Len(q) }

\* What a turn of the extracting coroutine leaves in the loop: suspended in
\* asyncio.sleep(0) it rejoins the queue behind the tasks that were ready,
\* which are owed a turn before it resumes; ended it leaves the queue.
after_turn(l, t) ==
    IF t.pc = "suspended"
    THEN [turns |-> l.turns + 1, ready |-> Append(Tail(l.ready), Extractor),
          owed |-> Behind(l.ready), outrun |-> l.outrun \/ l.owed # {}]
    ELSE [turns |-> l.turns + 1, ready |-> Tail(l.ready),
          owed |-> {}, outrun |-> l.outrun \/ l.owed # {}]

\* The documents of the calls made inside the loop.
LoopPages ==
    { PlainPage(0), [RichPage EXCEPT !.get_text = "raise"],
      [PlainPage(0) EXCEPT !.load = "IndexError"] }
LoopDocs ==
    { [len |-> "ok", pages |-> Numbered(ps), open |-> "ok"] :
        ps \in UNION { [1..n -> LoopPages] : n \in 0..MaxPages } }

\* A task of the loop calls async_extract_pdf on an in-memory document and
\* the coroutine joins the ready queue.
LoopCall(doc, flags, ready) ==
    /\ req.fn = "none"
    /\ req' = [safe_mode |-> "omitted", flags |-> flags, listing |-> <<>>, fn |-> "extract_pdf",
               input |-> BytesInput(doc)]
    /\ task' = [NoTask EXCEPT !.pc = "created"]
    /\ loop' = [NoLoop EXCEPT !.ready = ready]
    /\ UNCHANGED <<SAFE_MODE_CONFIG, sync_out, dispatch, calls, handles, runs, invoked, split>>

\* The loop runs the extracting coroutine: from its start to the first
\* await, or from one await to the next, or to its end.
LoopRunsExtractor ==
    /\ loop.ready # <<>> /\ Head(loop.ready) = Extractor
    /\ task.pc \in {"created", "suspended"}
    /\ task' = IF task.pc = "created"
               THEN AsyncEntry(task, req, SAFE_MODE_CONFIG)
               ELSE async_page_loop(task, SafeModeOf(req.safe_mode), req.flags,
                                    SAFE_MODE_CONFIG)
    /\ loop' = after_turn(loop, task')
    /\ UNCHANGED <<SAFE_MODE_CONFIG, req, sync_out, dispatch, calls, handles, runs, invoked, split>>

\* The loop runs another ready task, which may call set_safe_mode, and then
\* ends or yields again.
LoopRunsOther(again, config) ==
    /\ loop.ready # <<>> /\ Head(loop.ready) \in OtherTasks
    /\ loop' = [loop EXCEPT
                  !.ready = IF again THEN Append(Tail(loop.ready), Head(loop.ready))
                            ELSE Tail(loop.ready),
                  !.owed = loop.owed \ {Head(loop.ready)}]
    /\ SAFE_MODE_CONFIG' = config
    /\ UNCHANGED <<req, sync_out, task, dispatch, calls, handles, runs, invoked, split>>

\* The coroutine has ended and its result was taken; the configuration is
\* the one the tasks left.
LoopReturns ==
    /\ req.fn # "none" /\ task.pc = "done"
    /\ req' = NoReq
    /\ task' = NoTask
    /\ loop' = NoLoop
    /\ UNCHANGED <<SAFE_MODE_CONFIG, sync_out, dispatch, calls, handles, runs, invoked, split>>

NextLoop ==
    \/ /\ req.fn = "none"
       /\ \E doc \in LoopDocs, flags \in FlagChoices, ready \in ReadyQueues :
             LoopCall(doc, flags, ready)
    \/ LoopRunsExtractor
    \/ \E again \in BOOLEAN :
          \E config \in {SAFE_MODE_CONFIG, SafeModeConfig(FALSE, OutDir, {".txt"})} :
             LoopRunsOther(again, config)
    \/ LoopReturns

SpecLoop == Init /\ [][NextLoop]_vars

(***************************************************************************)
(* Several coroutines of async_extract_pdf over different documents, run   *)
(* by one event loop in any order of their turns.  The dicts the           *)
(* coroutines fill are kept in a heap, so that which dict a coroutine      *)
(* writes to is part of the model.                                         *)
(***************************************************************************)
\* Mutant of own_accumulator: one dict serves every invocation.
own_accumulator_shared(i) == 1

\* extracted_content = {}: each invocation binds a dict of its own.
own_accumulator(i) == i

\* The document with the pages of doc, labelled as those of document i.
DocumentOf(i, doc) ==
    [doc EXCEPT !.pages = [p \in 1..Len(doc.pages) |->
                              [doc.pages[p] EXCEPT !.id = 10 * i + p]]]

\* The coroutine i as it takes its turn: extracted_content is the dict it
\* is bound to.
bound(r, i) == [r.task[i] EXCEPT !.content = r.heap[own_accumulator(i)]]

\* One turn of a coroutine: from its start to the first await, or from one
\* await to the next, or to its end.
run_turn(t, doc, flags, config) ==
    IF t.pc = "created"
    THEN async_extract_pdf(t, BytesInput(doc), DefaultSafeMode, flags, config)
    ELSE async_page_loop(t, DefaultSafeMode, flags, config)

\* The runs after the turn of coroutine i that left it as t.
after_run_turn(r, i, t) ==
    [r EXCEPT !.task[i] = t, !.heap[own_accumulator(i)] = t.content,
              !.turns = Append(r.turns, i)]

\* Tasks of the loop call async_extract_pdf, each on a document of its own.
RunsStart(docs, flags) ==
    /\ \A i \in RunIds : runs.task[i].pc = "none"
    /\ runs' = [NoRuns EXCEPT
                  !.task = [i \in RunIds |-> [NoTask EXCEPT !.pc = "created"]],
                  !.doc = [i \in RunIds |-> DocumentOf(i, docs[i])],
                  !.flags = flags]
    /\ UNCHANGED <<SAFE_MODE_CONFIG, req, sync_out, task, dispatch, loop, calls, handles, invoked, split>>

\* The loop gives coroutine i its turn.
RunTakesTurn(i) ==
    /\ runs.task[i].pc \in {"created", "suspended"}
    /\ runs' = after_run_turn(runs, i,
                              run_turn(bound(runs, i), runs.doc[i], runs.flags,
                                       SAFE_MODE_CONFIG))
    /\ UNCHANGED <<SAFE_MODE_CONFIG, req, sync_out, task, dispatch, loop, calls, handles, invoked, split>>

\* All coroutines have ended and their results were taken.
RunsReturn ==
    /\ \A i \in RunIds : runs.task[i].pc = "done"
    /\ runs' = NoRuns
    /\ UNCHANGED <<SAFE_MODE_CONFIG, req, sync_out, task, dispatch, loop, calls, handles, invoked, split>>

NextRuns ==
    \/ /\ runs.task[1].pc = "none"
       /\ \E docs \in [RunIds -> LoopDocs], flags \in FlagChoices :
             RunsStart(docs, flags)
    \/ \E i \in RunIds : RunTakesTurn(i)
    \/ RunsReturn

SpecRuns == Init /\ [][NextRuns]_vars

(***************************************************************************)
(* The text splitters.  A str is the sequence of the code points of its    *)
(* characters ("a b" is <<97, 32, 98>>); a regular expression is the       *)
(* sequence of the character classes it matches one after the other, each  *)
(* a set of code points, the empty sequence being the empty pattern.       *)
(***************************************************************************)
MaxLen == 4
MaxSize == 3

Min(a, b) == IF a <= b THEN a ELSE b

RECURSIVE slices(_, _, _, _)
\* [text[i : i + chunk_size] for i in range(start, len(text), step)]
slices(text, start, chunk_size, step) ==
    IF start >= Len(text) THEN <<>>
    ELSE <<SubSeq(text, start + 1, Min(start + chunk_size, Len(text)))>>
         \o slices(text, start + step, chunk_size, step)

\* Mutant of character_splitter: the chunks start chunk_size apart whatever
\* the overlap.
character_splitter_without_overlap(text, chunk_size, overlap) ==
    IF chunk_size <= 0 THEN [kind |-> "ValueError", value |-> <<>>]
    ELSE IF overlap < 0 \/ overlap >= chunk_size
    THEN [kind |-> "ValueError", value |-> <<>>]
    ELSE [kind |-> "ok", value |-> slices(text, 0, chunk_size, chunk_size)]

\* character_splitter
character_splitter(text, chunk_size, overlap) ==
    IF chunk_size <= 0 THEN [kind |-> "ValueError", value |-> <<>>]
    ELSE IF overlap < 0 \/ overlap >= chunk_size
    THEN [kind |-> "ValueError", value |-> <<>>]
    ELSE [kind |-> "ok", value |-> slices(text, 0, chunk_size, chunk_size - overlap)]

\* What str.strip() and str.lstrip() remove: the characters str.isspace()
\* holds of.  These are U+0009 to U+000D, U+001C to U+0020, U+0085, U+00A0,
\* U+1680, U+2000 to U+200A, U+2028, U+2029, U+202F, U+205F and U+3000.
Whitespace ==
    (9..13) \cup (28..32) \cup {133, 160, 5760} \cup (8192..8202)
    \cup {8232, 8233, 8239, 8287, 12288}

RECURSIVE lstrip(_)
lstrip(s) ==
    IF s # <<>> /\ Head(s) \in Whitespace THEN lstrip(Tail(s)) ELSE s

RECURSIVE rstrip(_)
rstrip(s) ==
    IF s # <<>> /\ s[Len(s)] \in Whitespace THEN rstrip(SubSeq(s, 1, Len(s) - 1))
    ELSE s

strip(s) == rstrip(lstrip(s))

\* The pattern matches text at 0-based position i.
matches_at(pattern, text, i) ==
    /\ i + Len(pattern) <= Len(text)
    /\ \A k \in 1..Len(pattern) : text[i + k] \in pattern[k]

RECURSIVE split_from(_, _, _, _)
\* pattern.split(text) for a pattern that matches at least one character:
\* the matches are taken from left to right without overlap, start being
\* where the part under way began and i the position looked at.
split_from(pattern, text, start, i) ==
    IF i >= Len(text) THEN <<SubSeq(text, start + 1, Len(text))>>
    ELSE IF matches_at(pattern, text, i)
    THEN <<SubSeq(text, start + 1, i)>>
         \o split_from(pattern, text, i + Len(pattern), i + Len(pattern))
    ELSE split_from(pattern, text, start, i + 1)

\* re.compile(delimiter).split(text); the empty pattern matches before
\* every character and at the end.
re_split(pattern, text) ==
    IF pattern = <<>>
    THEN <<<<>>>> \o [k \in 1..Len(text) |-> <<text[k]>>] \o <<<<>>>>
    ELSE split_from(pattern, text, 0, 0)

\* The base case of split_recursive: no delimiter is left.
split_by_size(text, max_size) ==
    IF Len(text) > max_size THEN slices(text, 0, max_size, max_size)
    ELSE <<text>>

\* if current_chunk: chunks.append(current_chunk)
append_if_any(chunks, current_chunk) ==
    IF current_chunk # <<>> THEN Append(chunks, current_chunk) ELSE chunks

\* (current_chunk + " " + part).strip() if current_chunk else part
joined(current_chunk, part) ==
    IF current_chunk # <<>> THEN strip(current_chunk \o <<32>> \o part) ELSE part

RECURSIVE split_recursive(_, _, _)
RECURSIVE for_parts(_, _, _, _, _)
RECURSIVE for_part(_, _, _, _, _, _)

\* The body of `for part in parts` of split_recursive for the stripped,
\* non-empty part, followed by the rest of the loop.  A part longer than
\* max_size is split with the remaining delimiters and leaves current_chunk
\* as it is.
for_part(part, parts, delimiters, max_size, chunks, current_chunk) ==
    IF Len(current_chunk) + Len(part) > max_size
    THEN (IF Len(part) > max_size
          THEN for_parts(parts, delimiters, max_size,
                         append_if_any(chunks, current_chunk)
                             \o split_recursive(part, Tail(delimiters), max_size),
                         current_chunk)
          ELSE for_parts(parts, delimiters, max_size,
                         append_if_any(chunks, current_chunk), part))
    ELSE for_parts(parts, delimiters, max_size, chunks, joined(current_chunk, part))

\* for part in parts, and the statements after the loop.
for_parts(parts, delimiters, max_size, chunks, current_chunk) ==
    IF parts = <<>> THEN append_if_any(chunks, current_chunk)
    ELSE IF strip(Head(parts)) = <<>>
    THEN for_parts(Tail(parts), delimiters, max_size, chunks, current_chunk)
    ELSE for_part(strip(Head(parts)), Tail(parts), delimiters, max_size, chunks,
                  current_chunk)

\* split_recursive of recursive_character_splitter
split_recursive(text, delimiters, max_size) ==
    IF delimiters = <<>> THEN split_by_size(text, max_size)
    ELSE for_parts(re_split(Head(delimiters), text), delimiters, max_size, <<>>, <<>>)

RECURSIVE drop_first_words(_, _)
\* while len(overlap_text) > overlap:
\*     overlap_text = " ".join(overlap_text.split(" ")[1:])
drop_first_words(overlap_text, overlap) ==
    IF Len(overlap_text) <= overlap THEN overlap_text
    ELSE IF \E k \in 1..Len(overlap_text) : overlap_text[k] = 32
    THEN drop_first_words(
             SubSeq(overlap_text,
                    1 + CHOOSE k \in 1..Len(overlap_text) :
                            /\ overlap_text[k] = 32
                            /\ \A j \in 1..(k - 1) : overlap_text[j] # 32,
                    Len(overlap_text)),
             overlap)
    ELSE <<>>

RECURSIVE add_overlap(_, _, _)
\* The loop over the chunks that puts before each chunk but the first the
\* end of the chunk built before it.
add_overlap(chunks, overlap, final_chunks) ==
    IF chunks = <<>> THEN final_chunks
    ELSE IF final_chunks = <<>>
    THEN add_overlap(Tail(chunks), overlap, <<Head(chunks)>>)
    ELSE add_overlap(Tail(chunks), overlap,
                     Append(final_chunks,
                            lstrip(drop_first_words(final_chunks[Len(final_chunks)],
                                                    overlap))
                                \o <<32>> \o lstrip(Head(chunks))))

\* recursive_character_splitter
recursive_character_splitter(text, character_size, overlap, delimiters) ==
    IF overlap <= 0 THEN split_recursive(text, delimiters, character_size)
    ELSE add_overlap(split_recursive(text, delimiters, character_size), overlap, <<>>)

\* The delimiters " ", "[.!?]" and "" as patterns.
Space == <<{32}>>
SentenceEnd == <<{46, 33, 63}>>
Empty == <<>>

\* A client calls character_splitter.
CharacterSplitter(text, chunk_size, overlap) ==
    /\ split.fn = "none"
    /\ split' = [text |-> text, out |-> character_splitter(text, chunk_size, overlap), fn |-> "character_splitter",
                 overlap |-> overlap, delimiters |-> <<>>,
                 size |-> chunk_size]
    /\ UNCHANGED <<SAFE_MODE_CONFIG, req, sync_out, task, dispatch, loop, calls, handles, runs, invoked>>

\* A client calls recursive_character_splitter.
RecursiveCharacterSplitter(text, character_size, overlap, delimiters) ==
    /\ split.fn = "none"
    /\ split' = [text |-> text, out |-> [kind |-> "ok",
                          value |-> recursive_character_splitter(text, character_size,
                                                                 overlap, delimiters)],
                 fn |-> "recursive_character_splitter", overlap |-> overlap,
                 delimiters |-> delimiters,
                 size |-> character_size]
    /\ UNCHANGED <<SAFE_MODE_CONFIG, req, sync_out, task, dispatch, loop, calls, handles, runs, invoked>>

\* The client has its chunks and may call again.
SplitterReturns ==
    /\ split.fn # "none"
    /\ split' = NoSplit
    /\ UNCHANGED <<SAFE_MODE_CONFIG, req, sync_out, task, dispatch, loop, calls, handles, runs, invoked>>

\* What the clients of the splitters pass.
\* The characters a, b, space and full stop.
Alphabet == {97, 98, 32, 46}
Texts == UNION { [1..n -> Alphabet] : n \in 0..MaxLen }
DelimiterLists ==
    { <<>>, <<Space>>, <<SentenceEnd, Space>>, <<Space, Empty>>,
      <<SentenceEnd, Space, Empty>> }

NextSplit ==
    \/ /\ split.fn = "none"
       /\ \E text \in Texts, chunk_size \in (-1)..MaxSize, overlap \in (-1)..MaxSize :
             CharacterSplitter(text, chunk_size, overlap)
    \/ /\ split.fn = "none"
       /\ \E text \in Texts, character_size \in 1..MaxSize, overlap \in 0..1,
             delimiters \in DelimiterLists :
             RecursiveCharacterSplitter(text, character_size, overlap, delimiters)
    \/ SplitterReturns

SpecSplit == Init /\ [][NextSplit]_vars

(***************************************************************************)
(* Properties.                                                             *)
(***************************************************************************)
\* The document a single-document call is about.
TheDoc == IF req.input.is_bytes THEN req.input.doc ELSE DocAt(resolve(req.input.path))

\* The number of pages of a document; 0 when it cannot be determined.
PageCount(doc) == IF doc.len = "ok" THEN Len(doc.pages) ELSE 0

\* The blocking, respectively cooperative, single-document call has
\* returned a DocumentResult.
SyncReturned == req.fn = "extract_pdf" /\ sync_out.out.kind = "ok"
AsyncReturned == req.fn = "extract_pdf" /\ task.pc = "done" /\ task.out.kind = "ok"

\* P holds of every DocumentResult returned.
OfEveryResult(P(_)) ==
    /\ SyncReturned => P(sync_out.out.value)
    /\ AsyncReturned => P(task.out.value)

\* The collection under key; a result without the key has no entries.
Coll(result, key) == IF key \in DOMAIN result THEN result[key] ELSE <<>>

EnabledKeys(flags) ==
    (IF flags.text THEN {"text"} ELSE {}) \cup
    (IF flags.table THEN {"tables"} ELSE {}) \cup
    (IF flags.image THEN {"images"} ELSE {}) \cup
    (IF flags.encode_page THEN {"pages"} ELSE {}) \cup
    (IF flags.segment THEN {"segments"} ELSE {})

C1_Keys(result) == DOMAIN result = EnabledKeys(req.flags)

\* C1: for every page count N >= 0 and every flag combination, the mapping
\* returned by sync_extract_pdf / async_extract_pdf has exactly the keys of
\* the enabled flags.
C1_ExactlyTheEnabledKeys == OfEveryResult(C1_Keys)

C2_Pages(result) ==
    req.flags.encode_page =>
        LET pages == Coll(result, "pages")
            N == PageCount(TheDoc)
        IN  /\ Len(pages) = N
            /\ \A i \in 1..N :
                  /\ pages[i].page_number = i
                  /\ IF TheDoc.pages[i].get_pixmap = "ok"
                     THEN pages[i].image # None
                     ELSE /\ pages[i].image = None
                          /\ "error" \in DOMAIN pages[i]

\* C2: with encode_page on, the 'pages' list of a returned result has
\* exactly one entry per page, the i-th with page_number i, whichever pages
\* fail to rasterize; a failed page's entry has image null and an error.
C2_OnePageRecordPerPage == OfEveryResult(C2_Pages)

\* C2 witness: a two-page result whose second page failed to rasterize and
\* whose first did not.
C2_Witness ==
    /\ SyncReturned /\ AsyncReturned
    /\ req.flags.encode_page
    /\ PageCount(TheDoc) = 2
    /\ TheDoc.pages[1].get_pixmap = "ok"
    /\ TheDoc.pages[2].get_pixmap = "raise"
    /\ Len(task.out.value["pages"]) = 2
    /\ sync_out.out.value["pages"][2].image = None

C3_TextAligned(result) ==
    (req.flags.text /\ req.flags.encode_page) =>
        LET texts == Coll(result, "text")
            pages == Coll(result, "pages")
            N == PageCount(TheDoc)
        IN  /\ Len(texts) = N
            /\ Len(pages) = N
            /\ \A i \in 1..N :
                  /\ texts[i].page_number = pages[i].page_number
                  /\ TheDoc.pages[i].get_text # "ok" =>
                        texts[i].content =
                            <<"Error: Unable to extract text from page", i>>

\* C3: with text and encode_page on, 'text' and 'pages' have the same length
\* N and agree on page_number index by index, whatever fails; a page whose
\* text extraction fails contributes a placeholder record naming the page.
C3_TextAndPagesAligned == OfEveryResult(C3_TextAligned)

\* C3 witness: a two-page result where text extraction failed on page one
\* and rasterization on page two.
C3_Witness ==
    /\ SyncReturned /\ AsyncReturned
    /\ req.flags.text /\ req.flags.encode_page
    /\ PageCount(TheDoc) = 2
    /\ TheDoc.pages[1].get_text = "raise" /\ TheDoc.pages[1].get_pixmap = "ok"
    /\ TheDoc.pages[2].get_text = "ok" /\ TheDoc.pages[2].get_pixmap = "raise"
    /\ Len(sync_out.out.value["text"]) = 2
    /\ Len(task.out.value["text"]) = 2

(***************************************************************************)
(* Properties of the sandbox specification.                                *)
(***************************************************************************)
\* The blocking member of the call has answered.
SyncDone == req.fn # "none" /\ sync_out.out.kind # "none"

\* The call takes a path.
PathCall == req.fn # "none" /\ ~req.input.is_bytes

\* The path of the call, resolved, and where it lies.
Resolved == resolve(req.input.path)
OutsideBase == ~is_relative_to(Resolved, SAFE_MODE_CONFIG.base_directory)
BadExtension == lower(suffix(Resolved)) \notin SAFE_MODE_CONFIG.allowed_extensions

\* The path of the call is a regular file holding a document that opens.
ReadableFile == is_file(Resolved) /\ DocAt(Resolved).open = "ok"

\* The log has an event of this kind.
HasEvent(log, ev) == \E i \in 1..Len(log) : log[i].ev = ev
Opened(log, path) == \E i \in 1..Len(log) : log[i] = EvOpen(path)

\* C4: on the same input, flags and safe_mode, the blocking and the
\* cooperative implementation of single-document and of directory
\* extraction both return equal results, or both fail with the same kind of
\* error.
C4_BlockingAndCooperativeAgree ==
    (Finished /\ req.fn \in {"extract_pdf", "extract_pdfs_from_directory"}) =>
        /\ sync_out.out.kind = task.out.kind
        /\ sync_out.out.kind = "ok" => sync_out.out.value = task.out.value

\* C5: validate_path on a path resolving outside the base directory raises
\* PDFProcessingError with safe_mode=True, for a directory and for a file,
\* and returns the resolved path with safe_mode=False.
C5_OutsideBaseRejectedUnderSafeMode ==
    (SyncDone /\ req.fn = "validate_path" /\ OutsideBase) =>
        IF SafeModeOf(req.safe_mode)
        THEN sync_out.out.kind = "PDFProcessingError"
        ELSE sync_out.out = Return(Resolved)

\* C5 witness: a directory outside a reconfigured base directory, given by a
\* relative path, has been rejected.
C5_Witness ==
    /\ SyncDone /\ req.fn = "validate_path" /\ req.safe_mode = "True"
    /\ req.input.path = <<"docs.v1">>
    /\ SAFE_MODE_CONFIG.base_directory = OutDir
    /\ is_dir(Resolved) /\ OutsideBase
    /\ sync_out.out.kind = "PDFProcessingError"

\* What C6 asks of one implementation's outcome and log.
C6_OpenedAndReturned(out, log) ==
    IF is_dir(Resolved)
    THEN (req.fn # "extract_pdf" /\ req.input.path = Resolved) =>
            /\ out.kind = "ok"
            /\ \A f \in Files :
                  (InTree(Resolved, f) /\ DocAt(f).open = "ok") =>
                     /\ Opened(log, f)
                     /\ relative_to(f, Resolved).path \in DOMAIN out.value
    ELSE (req.fn # "extract_pdfs_from_directory" /\ ReadableFile) =>
            /\ out.kind = "ok"
            /\ Opened(log, Resolved)

\* C6: with safe_mode=False every entry point taking a path checks neither
\* containment nor extension: an existing readable document is opened and
\* its result returned, or present in the directory's result, wherever it
\* lies and whatever its extension.
C6_SafeModeFalseChecksNothing ==
    (Finished /\ PathCall /\ req.fn \in PairedEntryPoints /\ req.safe_mode = "False") =>
        /\ C6_OpenedAndReturned(sync_out.out, sync_out.log)
        /\ C6_OpenedAndReturned(task.out, task.log)

\* What the configured sandbox allows.
Allowed == ~OutsideBase /\ (is_dir(Resolved) \/ ~BadExtension)

\* C7: a call without an explicit safe_mode follows set_safe_mode: with
\* enabled=False validate_path accepts every path and an extraction opens
\* every readable file; with enabled=True only what the configured base
\* directory and allow-set permit is accepted.
C7_SetSafeModeGoverns ==
    (SyncDone /\ PathCall /\ req.fn \in {"validate_path", "extract_pdf"}
        /\ req.safe_mode = "omitted") =>
        IF SAFE_MODE_CONFIG.enabled
        THEN sync_out.out.kind = "ok" => Allowed
        ELSE /\ req.fn = "validate_path" => sync_out.out = Return(Resolved)
             /\ (req.fn = "extract_pdf" /\ ReadableFile) => sync_out.out.kind = "ok"

\* C8: with safe_mode=True validate_path accepts a directory iff it is under
\* the base directory, a non-directory iff it is under the base directory
\* and its lower-cased suffix is in the allow-set; a rejection is a
\* PDFProcessingError whose reason is outside-root whenever the path is
\* outside, bad-extension only inside.
C8_AcceptanceAndReasons ==
    (SyncDone /\ req.fn = "validate_path" /\ SafeModeOf(req.safe_mode)) =>
        IF Allowed
        THEN sync_out.out = Return(Resolved)
        ELSE sync_out.out =
                Raise(<<IF OutsideBase THEN AccessDenied ELSE InvalidFileType>>)

\* C8 witness: a file outside the base directory whose extension is not
\* allowed either has been rejected as outside-root.
C8_Witness ==
    /\ SyncDone /\ req.fn = "validate_path" /\ SafeModeOf(req.safe_mode)
    /\ ~is_dir(Resolved) /\ OutsideBase /\ BadExtension
    /\ sync_out.out = Raise(<<AccessDenied>>)

\* Every open of a path in the log comes after a successful validation of
\* that path, and no path whose validation failed is opened.
C9_ValidatedBeforeOpened(log) ==
    \A i \in 1..Len(log) :
        log[i].ev = "open" =>
            /\ \E j \in 1..(i - 1) :
                  log[j] = [ok |-> TRUE, path |-> log[i].path, ev |-> "validate"]
            /\ \A j \in 1..Len(log) :
                  ~(log[j] = [ok |-> FALSE, path |-> log[i].path, ev |-> "validate"])

\* C9: in every execution of an entry point on a path with safe_mode=True,
\* each open of a document is preceded, in the same invocation, by a
\* successful validate_path of the same path, and a path whose validation
\* failed is never opened.
C9_NoOpenWithoutValidation ==
    (PathCall /\ SafeModeOf(req.safe_mode)) =>
        /\ C9_ValidatedBeforeOpened(sync_out.log)
        /\ C9_ValidatedBeforeOpened(task.log)

\* C9 witness: a directory call under safe mode has ended, having opened one
\* walked file and rejected another.
C9_Witness ==
    /\ Finished /\ PathCall /\ SafeModeOf(req.safe_mode)
    /\ req.fn = "extract_pdfs_from_directory"
    /\ HasEvent(sync_out.log, "open") /\ HasEvent(task.log, "open")
    /\ \E i \in 1..Len(sync_out.log) :
          sync_out.log[i].ev = "validate" /\ ~sync_out.log[i].ok

\* What C10 asks of one implementation's outcome and log, validate_path
\* answering v for the input path.
C10_Dispatched(out, log, v) ==
    IF req.input.is_bytes
    THEN log = <<EvOpenStream>>
    ELSE /\ log # <<>> /\ log[1] = EvValidate(v)
         /\ IF ~v.ok
            THEN out = Raise(<<v.reason>>) /\ Len(log) = 1
            ELSE IF is_dir(v.path) THEN HasEvent(log, "walker")
            ELSE IF is_file(v.path) THEN Opened(log, v.path)
            ELSE out = Raise(<<InvalidInput>>) /\ Len(log) = 1

\* C10: extract_pdfs_sync / extract_pdfs_async send bytes to the
\* single-document pipeline without validation; a path is validated first,
\* then a directory goes to the walker, a regular file is opened as a single
\* document, and anything else fails as invalid input with nothing opened.
C10_DispatchOnInput ==
    (Finished /\ req.fn = "extract_pdfs") =>
        /\ C10_Dispatched(sync_out.out, sync_out.log,
                          validate_path(req.input.path, SafeModeOf(req.safe_mode),
                                        SAFE_MODE_CONFIG))
        /\ C10_Dispatched(task.out, task.log,
                          validate_path(req.input.path, SafeModeOf(req.safe_mode),
                                        SAFE_MODE_CONFIG))

\* The call is about a document that is missing, does not open, or has a
\* page that cannot be fetched.
WholeDocumentFailure ==
    \/ ~req.input.is_bytes /\ ~is_file(Resolved)
    \/ TheDoc.open # "ok"
    \/ \E i \in 1..PageCount(TheDoc) : TheDoc.pages[i].load # "ok"

\* The outcome is one PDFProcessingError, without a result.
C11_FailedAsOne(out) == out.kind = "PDFProcessingError" /\ out.value = None

\* C11: a failure of sync_extract_pdf / async_extract_pdf that concerns the
\* whole document (missing file, payload that does not open, page that
\* cannot be fetched) reaches the caller as one PDFProcessingError, never as
\* another exception, and no partial result is returned.
C11_WholeDocumentFailureIsOneError ==
    (req.fn = "extract_pdf") =>
        /\ SyncDone =>
              /\ sync_out.out.kind \in {"ok", "PDFProcessingError"}
              /\ WholeDocumentFailure => C11_FailedAsOne(sync_out.out)
        /\ task.pc = "done" =>
              /\ task.out.kind \in {"ok", "PDFProcessingError"}
              /\ WholeDocumentFailure => C11_FailedAsOne(task.out)

\* C11 witness: both implementations have failed on a document whose first
\* page was processed and whose second page could not be fetched.
C11_Witness ==
    /\ Finished /\ req.fn = "extract_pdf" /\ req.input.is_bytes
    /\ PageCount(TheDoc) = 2
    /\ TheDoc.pages[1].load = "ok" /\ TheDoc.pages[2].load # "ok"
    /\ C11_FailedAsOne(sync_out.out) /\ C11_FailedAsOne(task.out)
    /\ sync_out.out.reason = <<FailedToExtract, "IndexError">>

\* The extractor that fills key fails on page: a backend call it makes
\* raises.
C12_Fails(page, key) ==
    CASE key = "text" -> page.get_text # "ok"
      [] key = "tables" ->
            \/ page.find_tables # "ok"
            \/ \E i \in 1..Len(page.tables) : page.tables[i].extract # "ok"
      [] key = "images" ->
            \/ page.get_images # "ok"
            \/ \E i \in 1..Len(page.images) :
                  \/ page.images[i].extract \notin {"ok", "empty"}
                  \/ page.images[i].ocr # "ok"
      [] key = "pages" -> page.get_pixmap # "ok"
      [] OTHER ->
            \/ page.get_blocks # "ok" \/ page.get_images # "ok"
            \/ page.find_tables # "ok" \/ page.get_drawings # "ok"
            \/ \E i \in 1..Len(page.images) :
                  \/ page.images[i].extract \notin {"ok", "empty"}
                  \/ page.images[i].bbox # "ok"
                  \/ page.images[i].ocr # "ok"

\* The document with no failure injected into the backend calls on its
\* pages.
C12_FailureFree(doc) ==
    [doc EXCEPT !.pages =
        [i \in 1..Len(doc.pages) |->
            [doc.pages[i] EXCEPT !.get_text = "ok", !.find_tables = "ok",
                                 !.get_images = "ok", !.get_pixmap = "ok",
                                 !.get_blocks = "ok", !.get_drawings = "ok"]]]

\* The records of a collection that belong to page number n.
C12_OnPage(coll, n) ==
    SelectSeq(coll, LAMBDA r : r.page_number = n)

\* The result of the run on the failure-free document.
C12_FailureFreeResult ==
    sync_page_loop(C12_FailureFree(TheDoc), 0, PageCount(TheDoc), EmptyDict,
                   req.flags).value

\* The records of every non-failing (page, extractor) pair are those of the
\* failure-free run.
C12_Unaffected(result) ==
    \A i \in 1..PageCount(TheDoc) : \A key \in EnabledKeys(req.flags) :
        ~C12_Fails(TheDoc.pages[i], key) =>
            C12_OnPage(Coll(result, key), i)
                = C12_OnPage(Coll(C12_FailureFreeResult, key), i)

\* The document of the call opens and every page of it can be fetched.
C12_Opened ==
    /\ req.fn = "extract_pdf" /\ req.input.is_bytes
    /\ TheDoc.open = "ok"
    /\ \A i \in 1..PageCount(TheDoc) : TheDoc.pages[i].load = "ok"

\* C12: whatever extractors fail on whatever pages of an opened document,
\* the pipeline returns normally, and every record contributed by a
\* non-failing (page, extractor) pair is the one of a run without failures:
\* a failing extractor aborts neither the other extractors of its page nor
\* the later pages.
C12_ExtractorFailuresAreIsolated ==
    C12_Opened =>
        /\ SyncDone => sync_out.out.kind = "ok" /\ C12_Unaffected(sync_out.out.value)
        /\ task.pc = "done" => task.out.kind = "ok" /\ C12_Unaffected(task.out.value)

\* C12 witness: text extraction, rasterization and segment scan fail on the
\* first page; its table and both extractors of the second page deliver.
C12_Witness ==
    /\ Finished /\ C12_Opened
    /\ req.flags = DefaultFlags
    /\ PageCount(TheDoc) = 2
    /\ C12_Fails(TheDoc.pages[1], "text") /\ C12_Fails(TheDoc.pages[1], "pages")
    /\ C12_Fails(TheDoc.pages[1], "segments")
    /\ \A key \in EnabledKeys(req.flags) : ~C12_Fails(TheDoc.pages[2], key)
    /\ Len(sync_out.out.value["tables"]) = 2
    /\ Len(task.out.value["tables"]) = 2
    /\ sync_out.out.value["text"][2].content = <<"text", 2>>
    /\ Len(task.out.value["segments"][2].segments) > 0

\* The backend call a stage of _extract_segments_from_page starts with
\* raises; the LaTeX stage reads the blocks of the text stage.
C13_StageFails(page, type) ==
    CASE type = "text" -> page.get_blocks # "ok"
      [] type = "image" -> page.get_images # "ok"
      [] type = "table" -> page.find_tables # "ok"
      [] type = "chart" -> page.get_drawings # "ok"
      [] OTHER -> page.get_blocks # "ok"

\* What a stage emits when it runs.
C13_StageSegments(page, type) ==
    CASE type = "text" -> text_segments(page.blocks)
      [] type = "image" -> image_segments(page.images)
      [] type = "table" -> table_segments(page.tables)
      [] type = "chart" -> chart_segments(page.drawings)
      [] OTHER -> latex_segments(page.blocks)

\* The segments of one type in a list of segments.
C13_OfType(segments, type) ==
    SelectSeq(segments, LAMBDA s : s.type = type)

C13_StagesIndependent(result) ==
    req.flags.segment =>
        \A i \in 1..PageCount(TheDoc) :
            \A type \in {"text", "image", "table", "chart", "latex"} :
                ~C13_StageFails(TheDoc.pages[i], type) =>
                    C13_OfType(result["segments"][i].segments, type)
                        = C13_StageSegments(TheDoc.pages[i], type)

\* C13: in _extract_segments_from_page a failure of one of the five stages
\* (text, image, table, chart, LaTeX) removes only the segments of that
\* stage; the segments of every other stage, later ones included, are
\* emitted.
C13_SegmentStagesIsolated == OfEveryResult(C13_StagesIndependent)

\* Some segment of the given type carries the content and bbox of block.
C14_HasSegment(segments, type, block) ==
    \E j \in 1..Len(segments) :
        /\ segments[j].type = type
        /\ segments[j].content = block.content
        /\ segments[j].bbox = block.bbox

C14_MarkedBlocksTwice(result) ==
    req.flags.segment =>
        \A i \in 1..PageCount(TheDoc) :
            TheDoc.pages[i].get_blocks = "ok" =>
                \A b \in 1..Len(TheDoc.pages[i].blocks) :
                    IF has_latex_pattern(TheDoc.pages[i].blocks[b].content)
                    THEN /\ C14_HasSegment(result["segments"][i].segments, "text",
                                           TheDoc.pages[i].blocks[b])
                         /\ C14_HasSegment(result["segments"][i].segments, "latex",
                                           TheDoc.pages[i].blocks[b])
                    ELSE ~C14_HasSegment(result["segments"][i].segments, "latex",
                                         TheDoc.pages[i].blocks[b])

\* C14: every text block that contains a LaTeX marker gives a 'text' and a
\* 'latex' segment with the same bbox and content, whatever happens in the
\* image, table and chart stages; a block without a marker gives no 'latex'
\* segment.
C14_LatexAlongsideText == OfEveryResult(C14_MarkedBlocksTwice)

\* A directory call whose root validate_path accepts and which is a
\* directory.
RootAccepted ==
    /\ req.fn = "extract_pdfs_from_directory" /\ ~req.input.is_bytes
    /\ validate_path(req.input.path, SafeModeOf(req.safe_mode), SAFE_MODE_CONFIG).ok
    /\ is_dir(Resolved)

\* The file the walk finds at entry passes the validation of the call and
\* its document can be processed.
Processable(entry) ==
    /\ validate_path(entry, SafeModeOf(req.safe_mode), SAFE_MODE_CONFIG).ok
    /\ is_file(entry)
    /\ DocAt(resolve(entry)).open = "ok"
    /\ \A i \in 1..PageCount(DocAt(resolve(entry))) :
          DocAt(resolve(entry)).pages[i].load = "ok"

\* The files found recursively under the root of the call.
FoundUnderRoot == { e \in Files \cup Symlinks : InTree(Resolved, e) }

\* The paths, relative to the root, of the found files that are processable.
ProcessableKeys ==
    { SubSeq(f, Len(Resolved) + 1, Len(f)) : f \in { g \in FoundUnderRoot : Processable(g) } }

\* C15: a directory walk with safe_mode=True returns the keys of exactly the
\* files found recursively under the root that pass the per-file validation
\* and whose processing succeeds; a file that fails either is absent and
\* does not stop the walk.
C15_KeysAreTheProcessableFiles ==
    (RootAccepted /\ SafeModeOf(req.safe_mode)) =>
        /\ SyncDone =>
              sync_out.out.kind = "ok" /\ DOMAIN sync_out.out.value = ProcessableKeys
        /\ task.pc = "done" =>
              task.out.kind = "ok" /\ DOMAIN task.out.value = ProcessableKeys

\* The blocking single-document call the directory loop makes for the found
\* file succeeds.
C16_SyncProcessed(entry) ==
    sync_extract_pdf(PathInput(resolve(entry)), SafeModeOf(req.safe_mode), req.flags,
                     SAFE_MODE_CONFIG).out.kind = "ok"

\* The found files that were processed are keyed by their path relative to
\* the root.
C16_Keyed(result, processed(_)) ==
    \A f \in FoundUnderRoot :
        (validate_path(f, SafeModeOf(req.safe_mode), SAFE_MODE_CONFIG).ok
            /\ processed(f)) =>
                SubSeq(f, Len(Resolved) + 1, Len(f)) \in DOMAIN result

\* C16: for every root accepted as a directory, however it is written
\* (resolved and absolute, relative, with '..' or symlink components), each
\* successfully processed file appears in the DirectoryResult under its
\* path relative to that root.
C16_KeyedRelativeToRoot ==
    RootAccepted =>
        /\ SyncDone =>
              sync_out.out.kind = "ok"
                  /\ C16_Keyed(sync_out.out.value, C16_SyncProcessed)
        /\ task.pc = "done" =>
              task.out.kind = "ok" /\ C16_Keyed(task.out.value, Processable)

\* extract_pdfs has been called and the implementations have answered.
C17_Dispatched == req.fn = "extract_pdfs" /\ dispatch.impl # "none" /\ Finished

\* C17: extract_pdfs picks its implementation from the ambient context
\* alone: with no running event loop it runs extract_pdfs_sync and returns
\* its result; inside a running loop it schedules extract_pdfs_async, and
\* what the awaited task gives equals what extract_pdfs_sync returns for the
\* same input, flags and safe_mode.
C17_ContextAloneChooses ==
    C17_Dispatched =>
        IF dispatch.context = "plain"
        THEN /\ dispatch.impl = "extract_pdfs_sync"
             /\ dispatch.returned = sync_out.out
        ELSE /\ dispatch.impl = "extract_pdfs_async"
             /\ dispatch.returned = CreatedTask
             /\ task.out.kind = sync_out.out.kind
             /\ sync_out.out.kind = "ok" => task.out.value = sync_out.out.value

\* A call made inside the event loop is under way.
InLoop == req.fn = "extract_pdf" /\ loop.turns > 0

\* The tasks of a queue that run before the extracting coroutine.
Ahead(q) ==
    { q[i] : i \in { j \in 1..Len(q) : \A k \in 1..j : q[k] # Extractor } }

\* What the blocking page loop has collected after the first n pages.
AfterPages(n) == sync_page_loop(TheDoc, 0, n, EmptyDict, req.flags)

\* C18: async_extract_pdf yields to the event loop once after each page:
\* it never processes two pages in one turn and never suspends inside a
\* page; every task that was ready when it suspended has had its turn
\* before it resumes; and its result is the one of the blocking run,
\* whatever the other tasks do in between.
C18_YieldsOncePerPage ==
    InLoop =>
        /\ ~loop.outrun
        /\ task.pc = "suspended" =>
              /\ task.page_num = loop.turns
              /\ Return(task.content) = AfterPages(task.page_num)
              /\ loop.owed \subseteq Ahead(loop.ready)
        /\ task.pc = "done" =>
              /\ task.out = sync_open_and_extract(TheDoc, req.flags, <<>>).out
              /\ task.out.kind = "ok" => loop.turns = PageCount(TheDoc) + 1

\* C18 witness: the coroutine has ended after two pages; at each of its two
\* suspensions two other tasks were ready, and one of them changed the safe
\* mode configuration meanwhile.
C18_Witness ==
    /\ InLoop /\ task.pc = "done" /\ task.out.kind = "ok"
    /\ PageCount(TheDoc) = 2 /\ loop.turns = 3
    /\ req.flags = DefaultFlags
    /\ Len(task.out.value["text"]) = 2
    /\ loop.ready = <<"b", "a">>
    /\ SAFE_MODE_CONFIG.enabled = FALSE

\* C19: the override of with_safe_mode is applied and then restored: once
\* every decorated call in flight has returned or raised, under any
\* interleaving of concurrent callers asking for different safe_mode
\* values, SAFE_MODE_CONFIG.enabled is what it was before those calls
\* started.
C19_RestoredWhenAllReturned ==
    Quiescent => SAFE_MODE_CONFIG.enabled = calls.before

\* C20: every document handle opened by sync_extract_pdf or
\* async_extract_pdf is closed by the time the invocation ends, whether it
\* returns or raises.
C20_NoHandleLeftOpen ==
    (req.fn = "extract_pdf") =>
        /\ SyncDone => handles.blocking = 0
        /\ task.pc = "done" => handles.cooperative = 0

\* What coroutine i returns, or raises, when it runs alone.
C21_Alone(i) == sync_open_and_extract(runs.doc[i], runs.flags, <<>>).out

\* C21: when runs of async_extract_pdf over different documents interleave
\* at their page-boundary yields, each run returns exactly what it returns
\* when run alone, and at every yield its accumulator holds the records of
\* its own pages only.
C21_RunsDoNotMix ==
    \A i \in RunIds :
        /\ runs.task[i].pc = "suspended" =>
              Return(runs.heap[own_accumulator(i)])
                  = sync_page_loop(runs.doc[i], 0, runs.task[i].page_num, EmptyDict,
                                   runs.flags)
        /\ runs.task[i].pc = "done" => runs.task[i].out = C21_Alone(i)

\* C21 witness: two two-page documents were processed turn by turn, and
\* each result holds the text of its own two pages.
C21_Witness ==
    /\ runs.turns = <<1, 2, 1, 2, 1, 2>>
    /\ runs.flags = DefaultFlags
    /\ \A i \in RunIds :
          /\ runs.task[i].pc = "done" /\ runs.task[i].out.kind = "ok"
          /\ Len(runs.doc[i].pages) = 2
          /\ runs.task[i].out.value["text"][1].content = <<"text", 10 * i + 1>>
          /\ runs.task[i].out.value["text"][2].content = <<"text", 10 * i + 2>>

\* The page the record came from, where the record tells: the text of a
\* page and its rendering are those of the page with that identity.
C22_FromItsPage(coll) ==
    \A j \in 1..Len(coll) :
        LET page == TheDoc.pages[coll[j].page_number] IN
        /\ ("content" \in DOMAIN coll[j] /\ coll[j].content[1] = "text") =>
              coll[j].content = <<"text", page.id>>
        /\ ("image" \in DOMAIN coll[j] /\ coll[j].image # None) =>
              coll[j].image = <<"png", page.id>>
        /\ "segments" \in DOMAIN coll[j] => coll[j].segments = scan_segments(page)

C22_OneBasedAndOrdered(result) ==
    \A key \in DOMAIN result :
        /\ \A j \in 1..Len(result[key]) :
              result[key][j].page_number \in 1..PageCount(TheDoc)
        /\ \A j \in 1..(Len(result[key]) - 1) :
              result[key][j].page_number <= result[key][j + 1].page_number
        /\ C22_FromItsPage(result[key])

\* C22: in every returned DocumentResult every record of each of the five
\* collections carries the 0-based index of its page plus one, so
\* page_number lies in 1..N, and each collection is ordered by
\* non-decreasing page_number.
C22_PageNumbersOneBased == OfEveryResult(C22_OneBasedAndOrdered)

\* C22 witness: a result over two pages with a table and an image each; the
\* five collections hold records of page 1 and then of page 2.
C22_Witness ==
    /\ SyncReturned /\ AsyncReturned
    /\ req.flags = DefaultFlags
    /\ PageCount(TheDoc) = 2
    /\ \A key \in {"text", "tables", "images", "pages", "segments"} :
          /\ Len(sync_out.out.value[key]) >= 2
          /\ sync_out.out.value[key][1].page_number = 1
          /\ task.out.value[key][Len(task.out.value[key])].page_number = 2

\* The place of a segment type in the scan.
C25_Rank(type) ==
    CASE type = "text" -> 1
      [] type = "image" -> 2
      [] type = "table" -> 3
      [] type = "chart" -> 4
      [] type = "latex" -> 5

C25_InScanOrder(result) ==
    req.flags.segment =>
        \A i \in 1..Len(Coll(result, "segments")) :
            \A j, k \in 1..Len(result["segments"][i].segments) :
                j < k => C25_Rank(result["segments"][i].segments[j].type)
                            <= C25_Rank(result["segments"][i].segments[k].type)

\* C25: within the segment list of one page the segments come in the order
\* of the scan: the 'text' segments, then 'image', 'table', 'chart' and
\* 'latex'; no segment of an earlier type follows one of a later type.
C25_SegmentsInScanOrder == OfEveryResult(C25_InScanOrder)

\* C25 witness: a page with all five kinds of segments.
C25_Witness ==
    /\ SyncReturned /\ AsyncReturned /\ req.flags.segment
    /\ PageCount(TheDoc) = 1
    /\ Len(sync_out.out.value["segments"][1].segments) = 7
    /\ \A n \in 1..5 : \E j \in 1..7 :
          C25_Rank(task.out.value["segments"][1].segments[j].type) = n

\* The decoding of an embedded image in the segment scan fails: there is no
\* usable payload, or extracting, opening, locating or OCR-ing it raises.
C26_DecodingFails(img) == img.extract # "ok" \/ img.bbox # "ok" \/ img.ocr # "ok"

\* What the scan owes for one image: its image segment, or for an image
\* whose decoding fails the degraded segment when the bounding box can
\* still be obtained and nothing otherwise.
C26_Owed(img) ==
    IF ~C26_DecodingFails(img)
    THEN <<[content |-> <<"ocr", img.xref>>, image_data |-> <<"b64", img.xref>>,
            type |-> "image", bbox |-> <<"bbox", img.xref>>]>>
    ELSE IF img.bbox_xref = "ok"
    THEN <<[content |-> "Image data not available", type |-> "image",
            bbox |-> <<"bbox", img.xref>>]>>
    ELSE <<>>

RECURSIVE C26_OwedAll(_)
C26_OwedAll(image_list) ==
    IF image_list = <<>> THEN <<>>
    ELSE C26_Owed(Head(image_list)) \o C26_OwedAll(Tail(image_list))

C26_DegradedOrNothing(result) ==
    req.flags.segment =>
        \A i \in 1..PageCount(TheDoc) :
            TheDoc.pages[i].get_blocks = "ok" /\ TheDoc.pages[i].get_images = "ok" =>
                C13_OfType(result["segments"][i].segments, "image")
                    = C26_OwedAll(TheDoc.pages[i].images)

\* C26: in the segment scan every embedded image whose decoding fails yields
\* exactly one degraded 'image' segment ("Image data not available", with
\* bbox, without image_data) when its bounding box can be obtained and no
\* segment otherwise, and the other images of the page are still processed.
C26_FailedImageIsDegraded == OfEveryResult(C26_DegradedOrNothing)

\* The images of a list that the Image+OCR extractor can decode, in the
\* order of the enumeration.
C27_NonFailing(image_list) ==
    SelectSeq(image_list, LAMBDA img : img.extract = "ok" /\ img.ocr = "ok")

C27_OnePerDecodedImage(result) ==
    req.flags.image =>
        \A i \in 1..PageCount(TheDoc) :
            TheDoc.pages[i].get_images = "ok" =>
                C12_OnPage(Coll(result, "images"), i)
                    = [k \in 1..Len(C27_NonFailing(TheDoc.pages[i].images)) |->
                         [page_number |-> i,
                          content |-> <<"ocr", C27_NonFailing(TheDoc.pages[i].images)[k].xref>>,
                          image_data |-> <<"b64", C27_NonFailing(TheDoc.pages[i].images)[k].xref>>]]

\* C27: the ImageRecords of a page are exactly one per embedded image whose
\* decoding does not fail, in the order of the enumeration; an image that
\* fails gives no record and does not keep the images after it from being
\* processed.
C27_ImageRecordsPerDecodedImage == OfEveryResult(C27_OnePerDecodedImage)

\* C27 witness: on the first page decoding raises on the first of seven
\* images and the OCR on the third and on the last three; on the second
\* page the second of three images has no payload.  The records are those of the images 2 and 4 of
\* the first page and 1 and 3 of the second, in this order.
C27_Witness ==
    /\ SyncReturned /\ AsyncReturned /\ req.flags.image
    /\ PageCount(TheDoc) = 2
    /\ TheDoc.pages[1].get_images = "ok" /\ TheDoc.pages[2].get_images = "ok"
    /\ TheDoc.pages[1].images = FailingImages
    /\ Len(TheDoc.pages[2].images) = 3
    /\ TheDoc.pages[2].images[2].extract = "empty"
    /\ Len(sync_out.out.value["images"]) = 4
    /\ \A k \in 1..4 :
          /\ task.out.value["images"][k].content
                = <<"ocr", <<2, 4, 1, 3>>[k]>>
          /\ sync_out.out.value["images"][k] = task.out.value["images"][k]

\* Table detection, or the conversion of one of the detected tables, fails.
C28_TablesFail(page) ==
    \/ page.find_tables # "ok"
    \/ \E k \in 1..Len(page.tables) : page.tables[k].extract # "ok"

C28_NoneOrAll(result) ==
    req.flags.table =>
        \A i \in 1..PageCount(TheDoc) :
            C12_OnPage(Coll(result, "tables"), i)
                = IF C28_TablesFail(TheDoc.pages[i]) THEN <<>>
                  ELSE [k \in 1..Len(TheDoc.pages[i].tables) |->
                          [page_number |-> i,
                           content |-> <<"table", TheDoc.pages[i].tables[k].id>>,
                           metadata |-> <<"shape", TheDoc.pages[i].tables[k].cells>>]]

\* C28: when table detection or the conversion of any detected table fails
\* on a page, the page contributes no TableRecord at all, the ones of tables
\* already converted included, and no error record; the TableRecords of the
\* other pages are what they are without the failure.
C28_FailedPageHasNoTables == OfEveryResult(C28_NoneOrAll)

\* C28 witness: on the first page the second of two tables fails to
\* convert; the only TableRecord is the one of the second page.
C28_Witness ==
    /\ SyncReturned /\ AsyncReturned /\ req.flags.table
    /\ PageCount(TheDoc) = 2
    /\ TheDoc.pages[1].find_tables = "ok"
    /\ Len(TheDoc.pages[1].tables) = 2
    /\ TheDoc.pages[1].tables[1].extract = "ok"
    /\ TheDoc.pages[1].tables[2].extract = "raise"
    /\ ~C28_TablesFail(TheDoc.pages[2])
    /\ Len(sync_out.out.value["tables"]) = 1
    /\ Len(task.out.value["tables"]) = 1
    /\ task.out.value["tables"][1].page_number = 2

\* The number of calls of the extractor of key on the page of index p.
C29_Calls(trace, key, p) ==
    Cardinality({ j \in 1..Len(trace) : trace[j] = <<key, p>> })

\* Whatever has been called so far: only enabled extractors, none twice on
\* a page, and the pages in increasing order.
C29_NoRetryInPageOrder(trace) ==
    /\ \A j \in 1..Len(trace) :
          /\ trace[j][1] \in EnabledKeys(req.flags)
          /\ C29_Calls(trace, trace[j][1], trace[j][2]) = 1
    /\ \A j, k \in 1..Len(trace) : j < k => trace[j][2] <= trace[k][2]

\* At the return of the result every enabled extractor has been called on
\* every page, and the extractors that leave one record per call have left
\* one per page.
C29_OnEveryPage(trace, result) ==
    /\ \A p \in 0..(PageCount(TheDoc) - 1) : \A key \in EnabledKeys(req.flags) :
          C29_Calls(trace, key, p) = 1
    /\ \A key \in EnabledKeys(req.flags) \cap {"text", "pages", "segments"} :
          \A p \in 1..PageCount(TheDoc) : Len(C12_OnPage(Coll(result, key), p)) = 1

\* C29: each enabled extractor is invoked exactly once on every page, the
\* pages in increasing order, also when the invocation fails (there is no
\* retry); an extractor whose flag is off is never invoked.
C29_OncePerPageInOrder ==
    /\ C29_NoRetryInPageOrder(invoked.blocking)
    /\ C29_NoRetryInPageOrder(invoked.cooperative)
    /\ SyncReturned => C29_OnEveryPage(invoked.blocking, sync_out.out.value)
    /\ AsyncReturned => C29_OnEveryPage(invoked.cooperative, task.out.value)

\* C29 witness: text and segments are enabled and both fail on the first of
\* two pages; each has been called once per page, the other three never.
C29_Witness ==
    /\ SyncReturned /\ AsyncReturned
    /\ EnabledKeys(req.flags) = {"text", "segments"}
    /\ PageCount(TheDoc) = 2
    /\ C12_Fails(TheDoc.pages[1], "text") /\ C12_Fails(TheDoc.pages[1], "segments")
    /\ invoked.blocking = <<<<"text", 0>>, <<"segments", 0>>,
                            <<"text", 1>>, <<"segments", 1>>>>
    /\ invoked.cooperative = invoked.blocking

RECURSIVE Concat(_)
\* The chunks one after the other.
Concat(chunks) ==
    IF chunks = <<>> THEN <<>> ELSE Head(chunks) \o Concat(Tail(chunks))

\* The arguments character_splitter accepts.
C23_Accepted == split.size > 0 /\ split.overlap >= 0 /\ split.overlap < split.size

\* The 0-based starts k * (chunk_size - overlap) that lie inside the text.
C23_Starts ==
    { k \in 0..Len(split.text) : k * (split.size - split.overlap) < Len(split.text) }

\* C23: for a text of length L, chunk_size c > 0 and 0 <= overlap < c,
\* character_splitter returns the chunks text[k*(c-overlap) : k*(c-overlap)+c]
\* for k = 0, 1, ... while k*(c-overlap) < L: none is longer than c,
\* consecutive chunks start c - overlap apart, and with overlap = 0 the
\* chunks concatenated are the text; for c <= 0, overlap < 0 or
\* overlap >= c it raises ValueError.
C23_CharacterChunks ==
    split.fn = "character_splitter" =>
        IF C23_Accepted
        THEN /\ split.out.kind = "ok"
             /\ Len(split.out.value) = Cardinality(C23_Starts)
             /\ \A k \in C23_Starts :
                   /\ split.out.value[k + 1]
                        = SubSeq(split.text, k * (split.size - split.overlap) + 1,
                                 Min(k * (split.size - split.overlap) + split.size,
                                     Len(split.text)))
                   /\ Len(split.out.value[k + 1]) <= split.size
             /\ split.overlap = 0 => Concat(split.out.value) = split.text
        ELSE split.out.kind = "ValueError"

\* C23 witness: four characters in chunks of three that overlap by one.
C23_Witness ==
    /\ split.fn = "character_splitter"
    /\ split.text = <<97, 98, 32, 46>>
    /\ split.size = 3 /\ split.overlap = 1
    /\ split.out = [kind |-> "ok", value |-> <<<<97, 98, 32>>, <<32, 46>>>>]

\* C24: with overlap = 0 every chunk recursive_character_splitter returns
\* has at most character_size characters, whatever the text and the
\* delimiters.
C24_ChunksWithinSize ==
    split.fn = "recursive_character_splitter" /\ split.overlap = 0 =>
        \A k \in 1..Len(split.out.value) : Len(split.out.value[k]) <= split.size

\* The characters of s that are neither whitespace nor matched by one of
\* the delimiters: what the parts are made of.
C30_Letters(s, delimiters) ==
    SelectSeq(s, LAMBDA ch :
        /\ ch \notin Whitespace
        /\ \A d \in 1..Len(delimiters) : \A k \in 1..Len(delimiters[d]) :
              ch \notin delimiters[d][k])

\* C30: with overlap = 0 recursive_character_splitter emits each accumulated
\* chunk at most once and every non-empty part is in exactly one chunk of
\* the output, so the output holds as many characters of parts as the text
\* does; also when a part longer than character_size follows a non-empty
\* accumulated chunk.
C30_EachPartOnce ==
    split.fn = "recursive_character_splitter" /\ split.overlap = 0 =>
        Len(C30_Letters(Concat(split.out.value), split.delimiters))
            = Len(C30_Letters(split.text, split.delimiters))

====
